---- MODULE Spec2Model ----
(***************************************************************************)
(* Paper-trading core: CurrencyService, MarketTimeManager,                 *)
(* MarketRulesEngine and TradingEngine.                                    *)
(*                                                                         *)
(* Money and prices are fixed-point integers in units of 1/10000 of a      *)
(* currency unit (Scale).  Exchange rates are rationals <<num, den>>.      *)
(* The input domains below are chosen so that every product the code       *)
(* forms is exact in these units.                                          *)
(***************************************************************************)
EXTENDS Integers, Sequences, FiniteSets, TLC

\* ------------------------------------------------------------------------
\* Bounds of the model
\* ------------------------------------------------------------------------
MaxOrders == 2

\* ------------------------------------------------------------------------
\* Fixed-point arithmetic
\* ------------------------------------------------------------------------
Scale == 100 * 100

Max(a, b) == IF a >= b THEN a ELSE b

\* floor(x * n / d) without forming x * n (n >= 0, d > 0)
MulDiv(x, n, d) == (x \div d) * n + ((x % d) * n) \div d

\* ------------------------------------------------------------------------
\* CurrencyService
\* ------------------------------------------------------------------------
DefaultHkdRate == 9200
DefaultUsdRate == 72000
RateFloor == 1

Markets == {"A", "HK", "US"}

\* get_exchange_rate: the rate as the rational <<num, den>>; cfg holds the
\* configured hkd_to_cny_rate and usd_to_cny_rate in units of 1/10000.
get_exchange_rate(cfg, from_currency, to_currency) ==
    IF from_currency = to_currency THEN <<1, 1>>
    ELSE IF from_currency = "HKD" /\ to_currency = "CNY"
        THEN <<Max(cfg.hkd, RateFloor), Scale>>
    ELSE IF from_currency = "USD" /\ to_currency = "CNY"
        THEN <<Max(cfg.usd, RateFloor), Scale>>
    ELSE IF from_currency = "CNY" /\ to_currency = "HKD"
        THEN <<Scale, IF cfg.hkd <= 0 THEN DefaultHkdRate ELSE cfg.hkd>>
    ELSE IF from_currency = "CNY" /\ to_currency = "USD"
        THEN <<Scale, IF cfg.usd <= 0 THEN DefaultUsdRate ELSE cfg.usd>>
    ELSE <<1, 1>>

convert_amount(cfg, amount, from_currency, to_currency) ==
    LET rate == get_exchange_rate(cfg, from_currency, to_currency)
    IN  MulDiv(amount, rate[1], rate[2])

get_currency_by_market(market) ==
    IF market = "A" THEN "CNY"
    ELSE IF market = "HK" THEN "HKD"
    ELSE IF market = "US" THEN "USD"
    ELSE "CNY"

convert_to_cny(cfg, amount, market) ==
    convert_amount(cfg, amount, get_currency_by_market(market), "CNY")

\* ------------------------------------------------------------------------
\* MarketRulesEngine: fees
\* ------------------------------------------------------------------------
\* commission_rate 0.0003, transfer_fee_rate 0.00002, stamp_tax_rate 0.001
CommissionRateNum == 3
CommissionRateDen == 10000
TransferFeeRateNum == 2
TransferFeeRateDen == 100000
StampTaxRateNum == 1
StampTaxRateDen == 1000

min_commission_cny(market) ==
    IF market = "A" THEN 5 * Scale
    ELSE IF market = "HK" THEN 50 * Scale
    ELSE IF market = "US" THEN 1 * Scale
    ELSE 5 * Scale

\* The minimum is divided by get_exchange_rate('CNY', market): the second
\* argument is the market code, not a currency code.
calculate_commission(cfg, amount, market) ==
    LET rate == get_exchange_rate(cfg, "CNY", market)
        min_commission_local == MulDiv(min_commission_cny(market), rate[2], rate[1])
        commission == MulDiv(amount, CommissionRateNum, CommissionRateDen)
    IN  Max(commission, min_commission_local)

\* transfer_fee without the minimum of 1
transfer_fee_without_minimum(amount, market) ==
    IF market = "A"
    THEN MulDiv(amount, TransferFeeRateNum, TransferFeeRateDen)
    ELSE 0

transfer_fee(amount, market) ==
    IF market = "A"
    THEN Max(1 * Scale, MulDiv(amount, TransferFeeRateNum, TransferFeeRateDen))
    ELSE 0

calculate_buy_amount(cfg, volume, price, market) ==
    LET stock_amount_local == volume * price
        commission_local == calculate_commission(cfg, stock_amount_local, market)
        stamp_tax_local == 0
        transfer_fee_local == transfer_fee(stock_amount_local, market)
        total_local == stock_amount_local + commission_local
                       + stamp_tax_local + transfer_fee_local
    IN  convert_to_cny(cfg, total_local, market)

sell_stamp_tax(amount, market) ==
    IF market = "A" \/ market = "HK"
    THEN MulDiv(amount, StampTaxRateNum, StampTaxRateDen)
    ELSE 0

calculate_sell_amount(cfg, volume, price, market) ==
    LET stock_amount_local == volume * price
        commission_local == calculate_commission(cfg, stock_amount_local, market)
        stamp_tax_local == sell_stamp_tax(stock_amount_local, market)
        transfer_fee_local == transfer_fee(stock_amount_local, market)
        net_local == stock_amount_local - commission_local
                     - stamp_tax_local - transfer_fee_local
    IN  convert_to_cny(cfg, net_local, market)

\* ------------------------------------------------------------------------
\* MarketTimeManager
\* An instant is [day, sec]: a UTC calendar day (day 0 is a Monday) and the
\* second of that day.  Local dates are day numbers on the same calendar.
\* ------------------------------------------------------------------------
DaySeconds == 24 * 3600

HM(h, m) == h * 3600 + m * 60

tz_offset(market) == IF market = "US" THEN 0 - 4 * 3600 ELSE 8 * 3600

trading_sessions(market) ==
    IF market = "A" THEN << <<HM(9, 30), HM(11, 30)>>, <<HM(13, 0), HM(15, 0)>> >>
    ELSE IF market = "HK" THEN << <<HM(9, 30), HM(12, 0)>>, <<HM(13, 0), HM(16, 0)>> >>
    ELSE << <<HM(9, 30), HM(16, 0)>> >>

call_auction_sessions(market) ==
    IF market = "A" THEN << <<HM(9, 15), HM(9, 25)>>, <<HM(14, 57), HM(15, 0)>> >>
    ELSE IF market = "HK" THEN << <<HM(9, 30), HM(10, 0)>>, <<HM(12, 0), HM(13, 0)>> >>
    ELSE << >>

pre_market_sessions(market) ==
    IF market = "US" THEN << <<HM(4, 0), HM(9, 30)>> >> ELSE << >>

after_hours_sessions(market) ==
    IF market = "US" THEN << <<HM(16, 0), HM(20, 0)>> >> ELSE << >>

overnight_sessions(market) ==
    IF market = "US"
    THEN << <<HM(20, 0), HM(23, 59)>>, <<HM(0, 0), HM(4, 0)>> >>
    ELSE << >>

\* The calendar window starts on Monday 2025-09-29: the National Day
\* holidays (1-7 October) are days 2..8, Columbus Day (13 October) is day 14.
chinese_holidays == 2 .. 8
hk_holidays == chinese_holidays
us_holidays == {14}

holidays(market) ==
    IF market = "A" THEN chinese_holidays
    ELSE IF market = "HK" THEN hk_holidays
    ELSE us_holidays

is_weekday(target_date) == (target_date % 7) < 5

\* is_holiday that looks the date up in the default market's holidays
is_holiday_default_market(target_date, market) == target_date \in holidays("A")

is_holiday(target_date, market) == target_date \in holidays(market)

is_trading_day(target_date, market) ==
    is_weekday(target_date) /\ ~is_holiday(target_date, market)

\* _convert_to_market_time: local [date, time] of the instant
market_date(t, market) == (t.day * DaySeconds + t.sec + tz_offset(market)) \div DaySeconds
market_tod(t, market) == (t.day * DaySeconds + t.sec + tz_offset(market)) % DaySeconds

InSessions(sessions, current_time) ==
    \E i \in DOMAIN sessions :
        sessions[i][1] <= current_time /\ current_time <= sessions[i][2]

\* is_trading_time that tests the first trading session only
is_trading_time_first_session(t, market) ==
    /\ is_trading_day(market_date(t, market), market)
    /\ trading_sessions(market)[1][1] <= market_tod(t, market)
    /\ market_tod(t, market) <= trading_sessions(market)[1][2]

is_trading_time(t, market) ==
    /\ is_trading_day(market_date(t, market), market)
    /\ InSessions(trading_sessions(market), market_tod(t, market))

is_pre_market_time(t, market) ==
    /\ market = "US"
    /\ is_trading_day(market_date(t, market), market)
    /\ InSessions(pre_market_sessions(market), market_tod(t, market))

is_after_hours_time(t, market) ==
    /\ market = "US"
    /\ is_trading_day(market_date(t, market), market)
    /\ InSessions(after_hours_sessions(market), market_tod(t, market))

is_overnight_trading_time(t, market) ==
    LET current_time == market_tod(t, market)
        prev_trading_day == market_date(t, market)
        next_trading_day == market_date(t, market) + 1
        sessions == overnight_sessions(market)
    IN  /\ market = "US"
        /\ IF current_time >= HM(20, 0) /\ current_time <= HM(23, 59)
           THEN /\ is_trading_day(prev_trading_day, market)
                /\ Len(sessions) > 0
                /\ sessions[1][1] <= current_time /\ current_time <= sessions[1][2]
           ELSE IF current_time >= HM(0, 0) /\ current_time <= HM(4, 0)
           THEN /\ is_trading_day(next_trading_day, market)
                /\ Len(sessions) > 1
                /\ sessions[2][1] <= current_time /\ current_time <= sessions[2][2]
           ELSE FALSE

is_call_auction_time(t, market) ==
    /\ is_trading_day(market_date(t, market), market)
    /\ InSessions(call_auction_sessions(market), market_tod(t, market))

is_market_open(t, market) ==
    \/ is_trading_time(t, market)
    \/ is_call_auction_time(t, market)
    \/ /\ market = "US"
       /\ \/ is_pre_market_time(t, market)
          \/ is_after_hours_time(t, market)
          \/ is_overnight_trading_time(t, market)

\* can_place_order: [ok, reason]
can_place_order(t, market) ==
    LET current_time == market_tod(t, market)
        d == market_date(t, market)
    IN  IF ~is_trading_day(d, market)
        THEN IF ~is_weekday(d) THEN [ok |-> FALSE, reason |-> "weekend"]
             ELSE [ok |-> FALSE, reason |-> "holiday"]
        ELSE IF is_trading_time(t, market) THEN [ok |-> TRUE, reason |-> "regular"]
        ELSE IF is_call_auction_time(t, market) THEN [ok |-> TRUE, reason |-> "call_auction"]
        ELSE IF market = "US" /\ is_pre_market_time(t, market)
            THEN [ok |-> TRUE, reason |-> "pre_market"]
        ELSE IF market = "US" /\ is_after_hours_time(t, market)
            THEN [ok |-> TRUE, reason |-> "after_hours"]
        ELSE IF market = "US" /\ is_overnight_trading_time(t, market)
            THEN [ok |-> TRUE, reason |-> "overnight"]
        ELSE IF market = "A" /\ current_time < HM(9, 15)
            THEN [ok |-> FALSE, reason |-> "not_yet_open"]
        ELSE IF market = "A" /\ HM(9, 25) < current_time /\ current_time < HM(9, 30)
            THEN [ok |-> FALSE, reason |-> "pre_open"]
        ELSE IF market = "A" /\ HM(11, 30) < current_time /\ current_time < HM(13, 0)
            THEN [ok |-> FALSE, reason |-> "lunch_break"]
        ELSE IF market = "A" /\ current_time > HM(15, 0)
            THEN [ok |-> FALSE, reason |-> "already_closed"]
        ELSE IF market = "HK" /\ current_time < HM(9, 30)
            THEN [ok |-> FALSE, reason |-> "not_yet_open"]
        ELSE IF market = "HK" /\ HM(12, 0) < current_time /\ current_time < HM(13, 0)
            THEN [ok |-> FALSE, reason |-> "lunch_break"]
        ELSE IF market = "HK" /\ current_time > HM(16, 0)
            THEN [ok |-> FALSE, reason |-> "already_closed"]
        ELSE [ok |-> FALSE, reason |-> "non_trading_time"]

\* LongPortAPIService.get_us_trading_session: the session_type
get_us_trading_session(t) ==
    IF is_overnight_trading_time(t, "US") THEN "overnight"
    ELSE IF is_pre_market_time(t, "US") THEN "pre_market"
    ELSE IF is_trading_time(t, "US") THEN "regular"
    ELSE IF is_after_hours_time(t, "US") THEN "after_hours"
    ELSE "closed"

\* ------------------------------------------------------------------------
\* Input domains of the engine
\* ------------------------------------------------------------------------
Users == {"u1", "u2"}

Stocks == {"600000", "00700", "AAPL"}

\* The stocks each user trades in the model
StocksOf(user_id) == IF user_id = "u1" THEN Stocks ELSE {"600000"}

\* StockDataService._detect_market, on the three codes of the model
detect_market(stock_code) ==
    IF stock_code = "600000" THEN "A"
    ELSE IF stock_code = "00700" THEN "HK"
    ELSE "US"

Yuan(units, cents) == units * Scale + cents * 100

NoPrice == 0 - 1

\* Quote snapshots the quote provider may return for a stock (limit 0: the
\* market has no price limit).
Quote(market, current, up, down, suspended) ==
    [market |-> market, current_price |-> current, limit_up |-> up,
     limit_down |-> down, is_suspended |-> suspended]

Quotes(stock_code) ==
    IF stock_code = "600000"
    THEN { Quote("A", Yuan(10, 0), Yuan(11, 0), Yuan(9, 0), FALSE),
           Quote("A", Yuan(11, 0), Yuan(11, 0), Yuan(9, 0), FALSE),
           Quote("A", Yuan(10, 0), Yuan(11, 0), Yuan(9, 0), TRUE) }
    ELSE IF stock_code = "00700"
    THEN { Quote("HK", Yuan(29, 0), 0, 0, FALSE) }
    ELSE { Quote("US", Yuan(5, 0), Yuan(6, 0), Yuan(4, 0), FALSE) }

\* What get_stock_info returns to a user's request: <<quote>>, or <<>> when
\* no quote can be obtained
QuoteResults(user_id, stock_code) ==
    IF user_id = "u1"
    THEN {<<q>> : q \in Quotes(stock_code)}
    ELSE {<<Quote("A", Yuan(10, 0), Yuan(11, 0), Yuan(9, 0), FALSE)>>, <<>>}

\* The prices a caller may ask for: NoPrice for a market order, else a limit
PriceInputs(user_id, stock_code) ==
    IF stock_code = "600000"
    THEN IF user_id = "u1"
         THEN {NoPrice, Yuan(9, 50), Yuan(12, 0)}
         ELSE {NoPrice, Yuan(9, 50)}
    ELSE IF stock_code = "00700" THEN {NoPrice, Yuan(29, 0)}
    ELSE {NoPrice, Yuan(4, 50)}

Volumes(user_id, stock_code) ==
    IF stock_code = "600000"
    THEN IF user_id = "u1" THEN {100, 150} ELSE {100}
    ELSE IF stock_code = "00700" THEN {150, 20}
    ELSE {100}

\* Instants at which a request for a stock of the given market may arrive:
\* Monday (day 0) in Beijing and Hong Kong; in New York Monday, or, at
\* 02:00 UTC, still the Sunday before.
Instant(day, h, m) == [day |-> day, sec |-> HM(h, m)]

EngineInstants(user_id, market) ==
    IF market = "A"
    THEN IF user_id = "u1"
         THEN {Instant(0, 2, 0), Instant(0, 1, 20), Instant(0, 9, 0)}
         ELSE {Instant(0, 2, 0), Instant(0, 9, 0)}
    ELSE IF market = "HK"
    THEN {Instant(0, 2, 30), Instant(0, 9, 0)}
    ELSE {Instant(0, 14, 0), Instant(0, 9, 0), Instant(0, 2, 0)}

\* Exchange-rate configurations (hkd_to_cny_rate, usd_to_cny_rate)
RateConfigs ==
    { [hkd |-> DefaultHkdRate, usd |-> DefaultUsdRate],
      [hkd |-> 9900, usd |-> DefaultUsdRate] }

InitialBalance(user_id) == IF user_id = "u1" THEN Yuan(8000, 0) ELSE Yuan(3000, 0)

\* ------------------------------------------------------------------------
\* Model classes: StockInfo, User, Position, Order
\* ------------------------------------------------------------------------
is_limit_up(stock_info) ==
    stock_info.limit_up > 0 /\ stock_info.current_price >= stock_info.limit_up

is_limit_down(stock_info) ==
    stock_info.limit_down > 0 /\ stock_info.current_price <= stock_info.limit_down

can_buy_at_price(stock_info, price) ==
    stock_info.limit_up = 0 \/ price <= stock_info.limit_up

can_sell_at_price(stock_info, price) ==
    stock_info.limit_down = 0 \/ price >= stock_info.limit_down

get_market_buy_price(stock_info) == stock_info.current_price

get_market_sell_price(stock_info) == stock_info.current_price

can_buy(user, amount) == user.balance >= amount

deduct_balance(user, amount) == [user EXCEPT !.balance = @ - amount]

add_balance(user, amount) == [user EXCEPT !.balance = @ + amount]

update_total_assets(user, total_assets) == [user EXCEPT !.total_assets = total_assets]

\* A new position whose shares are sellable at once
NewPositionAvailable(volume, price, market) ==
    [total_volume |-> volume, available_volume |-> volume,
     market_value |-> volume * price, market |-> market]

NewPosition(volume, price, market) ==
    [total_volume |-> volume, available_volume |-> 0,
     market_value |-> volume * price, market |-> market]

add_position(position, volume, price) ==
    [position EXCEPT !.total_volume = @ + volume]

can_sell(position, volume) == position.available_volume >= volume

\* reduce_position succeeds only within the available volume
can_reduce_position(position, volume) == volume <= position.available_volume

reduce_position(position, volume) ==
    [position EXCEPT !.total_volume = @ - volume, !.available_volume = @ - volume]

is_empty(position) == position.total_volume <= 0

update_market_data(position, current_price) ==
    [position EXCEPT !.market_value = position.total_volume * current_price]

NewOrder(user_id, stock_code, order_type, price_type, order_price, volume) ==
    [user_id |-> user_id, stock_code |-> stock_code, order_type |-> order_type,
     price_type |-> price_type, order_price |-> order_price,
     order_volume |-> volume, filled_volume |-> 0, filled_amount |-> 0,
     status |-> "PENDING"]

is_market_order(order) == order.price_type = "MARKET"

is_buy_order(order) == order.order_type = "BUY"

is_pending(order) == order.status = "PENDING"

fill_order(order, volume, price) ==
    [order EXCEPT !.filled_volume = volume, !.filled_amount = volume * price,
                  !.status = "FILLED"]

cancel_order_status(order) == [order EXCEPT !.status = "CANCELLED"]

\* ------------------------------------------------------------------------
\* MarketRulesEngine: validation ("ok" or the tag of the first failed rule)
\* ------------------------------------------------------------------------
min_volume(market) == IF market = "A" THEN 100 ELSE 1

min_amount(market) ==
    IF market = "A" THEN 100 * Scale
    ELSE IF market = "HK" THEN 1000 * Scale
    ELSE 100 * Scale

validate_trading_time(t, stock_info) == can_place_order(t, stock_info.market)

\* validate_buy_order testing the lot size before the funds
validate_buy_order_lot_size_first(cfg, t, stock_info, order, user_balance) ==
    LET total_amount_cny ==
            calculate_buy_amount(cfg, order.order_volume, order.order_price,
                                 stock_info.market)
    IN  IF is_market_order(order) /\ ~validate_trading_time(t, stock_info).ok
            THEN "not_trading_time"
        ELSE IF stock_info.is_suspended THEN "suspended"
        ELSE IF is_limit_up(stock_info) THEN "at_limit_up"
        ELSE IF ~can_buy_at_price(stock_info, order.order_price) THEN "price_above_limit_up"
        ELSE IF order.order_volume % min_volume(stock_info.market) # 0 THEN "lot_size"
        ELSE IF user_balance < total_amount_cny THEN "insufficient_funds"
        ELSE IF total_amount_cny < min_amount(stock_info.market) THEN "min_amount"
        ELSE "ok"

validate_buy_order(cfg, t, stock_info, order, user_balance) ==
    LET total_amount_cny ==
            calculate_buy_amount(cfg, order.order_volume, order.order_price,
                                 stock_info.market)
    IN  IF is_market_order(order) /\ ~validate_trading_time(t, stock_info).ok
            THEN "not_trading_time"
        ELSE IF stock_info.is_suspended THEN "suspended"
        ELSE IF is_limit_up(stock_info) THEN "at_limit_up"
        ELSE IF ~can_buy_at_price(stock_info, order.order_price) THEN "price_above_limit_up"
        ELSE IF user_balance < total_amount_cny THEN "insufficient_funds"
        ELSE IF order.order_volume % min_volume(stock_info.market) # 0 THEN "lot_size"
        ELSE IF total_amount_cny < min_amount(stock_info.market) THEN "min_amount"
        ELSE "ok"

\* position is <<>> when the user holds no position record for the stock
validate_sell_order(t, stock_info, order, position) ==
    IF is_market_order(order) /\ ~validate_trading_time(t, stock_info).ok
        THEN "not_trading_time"
    ELSE IF position = <<>> THEN "no_position"
    ELSE IF is_empty(position[1]) THEN "no_position"
    ELSE IF stock_info.is_suspended THEN "suspended"
    ELSE IF is_limit_down(stock_info) THEN "at_limit_down"
    ELSE IF ~can_sell_at_price(stock_info, order.order_price) THEN "price_below_limit_down"
    ELSE IF ~can_sell(position[1], order.order_volume) THEN "insufficient_available"
    ELSE IF order.order_volume % min_volume(stock_info.market) # 0 THEN "lot_size"
    ELSE "ok"

\* ------------------------------------------------------------------------
\* Input domains of the session resolvers and of the currency service
\* ------------------------------------------------------------------------
MaxDay == 15

\* The UTC instant at which the market's local clock shows date and tod
ToUtc(market, local_date, tod) ==
    LET total == local_date * DaySeconds + tod - tz_offset(market)
    IN  [day |-> total \div DaySeconds, sec |-> total % DaySeconds]

\* Local times of day: the window boundaries, the seconds next to them and
\* points inside and outside the windows
LocalTimes(market) ==
    IF market = "A"
    THEN {HM(9, 0), HM(9, 15) - 1, HM(9, 15), HM(9, 20), HM(9, 25), HM(9, 25) + 1,
          HM(9, 30) - 1, HM(9, 30), HM(10, 0), HM(11, 30), HM(11, 30) + 1,
          HM(12, 0), HM(13, 0) - 1, HM(13, 0), HM(14, 0), HM(14, 57), HM(14, 58),
          HM(15, 0), HM(15, 0) + 1, HM(17, 0)}
    ELSE IF market = "HK"
    THEN {HM(9, 0), HM(9, 30) - 1, HM(9, 30), HM(9, 45), HM(10, 0), HM(10, 0) + 1,
          HM(11, 0), HM(12, 0), HM(12, 0) + 1, HM(12, 30), HM(13, 0) - 1, HM(13, 0),
          HM(14, 0), HM(16, 0), HM(16, 0) + 1, HM(17, 0)}
    ELSE {HM(0, 0), HM(2, 0), HM(4, 0) - 1, HM(4, 0), HM(4, 0) + 1, HM(7, 0),
          HM(9, 30) - 1, HM(9, 30), HM(9, 30) + 1, HM(12, 0), HM(16, 0) - 1,
          HM(16, 0), HM(16, 0) + 1, HM(18, 0), HM(20, 0) - 1, HM(20, 0),
          HM(20, 0) + 1, HM(23, 30), HM(23, 59), HM(23, 59) + 30}

ClockInputs ==
    UNION { { [market |-> m, t |-> ToUtc(m, d, tod)] :
                d \in 0 .. MaxDay, tod \in LocalTimes(m) } : m \in Markets }

\* Configured rates in units of 1/10000: negative, zero, the floor, usual values
FxRates == {0 - 5000, 0, 1, 9200, 9900, 72000}

FxConfigs == [hkd : FxRates, usd : FxRates]

Currencies == {"CNY", "HKD", "USD"}

\* Volumes and prices handed to the fee functions, per market: small orders,
\* for which the minimum commission applies, and large ones, for which the
\* commission rate applies
FeeVolumes(market) ==
    IF market = "A" THEN {100, 150, 1000}
    ELSE IF market = "HK" THEN {20, 150, 1000}
    ELSE {100, 1000}

FeePrices(market) ==
    IF market = "A" THEN {Yuan(10, 0), Yuan(20, 0)}
    ELSE IF market = "HK" THEN {Yuan(29, 0), Yuan(180, 0)}
    ELSE {Yuan(4, 50)}

\* Balances handed to validate_buy_order
BalanceInputs == {Yuan(500, 0), Yuan(1200, 0), Yuan(8000, 0)}

\* A US stock quoted below one dollar, traded by the single share or by the
\* thousand
PennyStock == "SNDL"

PennyQuote == Quote("US", Yuan(0, 50), 0, 0, FALSE)

PennyVolumes == {1, 1000}

\* Sell orders handed to validate_sell_order: those of the engine's stocks
\* and those of the penny stock
SellStocks == Stocks \cup {PennyStock}

SellQuotes(stock_code) ==
    IF stock_code = PennyStock THEN {PennyQuote} ELSE Quotes(stock_code)

SellVolumes(stock_code) ==
    IF stock_code = PennyStock THEN PennyVolumes ELSE Volumes("u1", stock_code)

SellPrices(stock_code) ==
    IF stock_code = PennyStock THEN {NoPrice} ELSE PriceInputs("u1", stock_code)

\* The position handed to validate_sell_order: none, or 1000 shares of
\* which 1000 or 100 are available
HeldPositions(stock_info) ==
    { <<>> } \cup
    { <<[total_volume |-> 1000, available_volume |-> a,
         market_value |-> 1000 * stock_info.current_price,
         market |-> stock_info.market]>> : a \in {100, 1000} }

NoAnswer == [op |-> "none"]

\* The order numbers the concurrent requests may draw
MaxRaceOrders == 3

\* The collaborator calls that may fail in one run
MaxFaults == 1

\* The tasks that run order requests at the same time, and a task that runs
\* none
Tasks == {"t1", "t2"}

Idle == [op |-> "idle"]

NoRequests == [r \in Tasks |-> Idle]

\* The concurrent requests: market orders for 100 shares of the A-share,
\* answered on Monday at 10:00 Beijing time with the quote at 10.00 or with
\* no quote
RaceStock == "600000"

RaceVolumes == {100}

RacePrices == {NoPrice}

RaceInstants == {Instant(0, 2, 0)}

RaceQuote == Quote("A", Yuan(10, 0), Yuan(11, 0), Yuan(9, 0), FALSE)

RaceQuoteResults == {<<RaceQuote>>, <<>>}

\* ------------------------------------------------------------------------
\* State
\* ------------------------------------------------------------------------
VARIABLES
    users,              \* storage: user_id -> [balance, total_assets]
    positions,          \* storage: <<user_id, stock_code>> -> position record
    orders,             \* storage: order_id -> order record
    next_order_number,  \* storage: the order-number sequence
    config,             \* plugin configuration: the exchange rates
    last,               \* the last call and what it returned
    clock,              \* the instant and market a session resolver is asked about
    answer,             \* what the last session or exchange-rate query returned
    inflight,           \* the order requests suspended at get_stock_info, by task
    faults              \* the number of collaborator calls that have failed

vars == <<users, positions, orders, next_order_number, config, last, clock, answer,
         inflight, faults>>

store == <<users, positions, orders>>

Put(f, k, v) == [x \in (DOMAIN f) \cup {k} |-> IF x = k THEN v ELSE f[x]]

Del(f, k) == [x \in (DOMAIN f) \ {k} |-> f[x]]

get_position(ps, user_id, stock_code) ==
    IF <<user_id, stock_code>> \in DOMAIN ps THEN <<ps[<<user_id, stock_code>>]>> ELSE <<>>

get_positions(ps, user_id) == {k \in DOMAIN ps : k[1] = user_id}

\* ------------------------------------------------------------------------
\* TradingEngine
\* ------------------------------------------------------------------------
RECURSIVE SumMarketValue(_, _, _)
SumMarketValue(cfg, ps, keys) ==
    IF keys = {} THEN 0
    ELSE LET k == CHOOSE x \in keys : TRUE
             market == ps[k].market
             value_cny ==
                 IF market = "A" THEN ps[k].market_value
                 ELSE LET rate == get_exchange_rate(cfg, get_currency_by_market(market), "CNY")
                      IN  MulDiv(ps[k].market_value, rate[1], rate[2])
         IN  value_cny + SumMarketValue(cfg, ps, keys \ {k})

\* update_user_assets that adds the market values without converting them
update_user_assets_unconverted(cfg, us, ps, user_id) ==
    LET RECURSIVE Raw(_)
        Raw(keys) == IF keys = {} THEN 0
                     ELSE LET k == CHOOSE x \in keys : TRUE
                          IN  ps[k].market_value + Raw(keys \ {k})
    IN  IF user_id \notin DOMAIN us THEN us
        ELSE [us EXCEPT ![user_id] =
                update_total_assets(@, @.balance + Raw(get_positions(ps, user_id)))]

update_user_assets(cfg, us, ps, user_id) ==
    IF user_id \notin DOMAIN us THEN us
    ELSE [us EXCEPT ![user_id] =
            update_total_assets(@, @.balance
                + SumMarketValue(cfg, ps, get_positions(ps, user_id)))]

\* What a call returns together with the storage it leaves behind
Outcome(us, ps, os, next, ok, reason, order_id) ==
    [users |-> us, positions |-> ps, orders |-> os, next |-> next,
     ok |-> ok, reason |-> reason, order_id |-> order_id]

Rejected(next, reason) == Outcome(users, positions, orders, next, FALSE, reason, 0)

execute_buy_order_immediately(user_id, order_id, order, stock_info, next) ==
    LET user == users[user_id]
        total_cost_cny ==
            calculate_buy_amount(config, order.order_volume, order.order_price,
                                 stock_info.market)
        user2 == deduct_balance(user, total_cost_cny)
        order2 == fill_order(order, order.order_volume, order.order_price)
        position_data == get_position(positions, user_id, order.stock_code)
        position ==
            IF position_data # <<>>
            THEN add_position(position_data[1], order.order_volume, order.order_price)
            ELSE NewPosition(order.order_volume, stock_info.current_price,
                             stock_info.market)
        position2 == update_market_data(position, stock_info.current_price)
        us2 == [users EXCEPT ![user_id] = user2]
        ps2 == Put(positions, <<user_id, order.stock_code>>, position2)
        os2 == Put(orders, order_id, order2)
    IN  IF ~can_buy(user, total_cost_cny)
        THEN Rejected(next, "insufficient_funds")
        ELSE Outcome(update_user_assets(config, us2, ps2, user_id), ps2, os2,
                     next, TRUE, "filled", order_id)

place_pending_buy_order(user_id, order_id, order, stock_info, next) ==
    LET user == users[user_id]
        total_cost_cny ==
            calculate_buy_amount(config, order.order_volume, order.order_price,
                                 stock_info.market)
        us2 == [users EXCEPT ![user_id] = deduct_balance(user, total_cost_cny)]
        os2 == Put(orders, order_id, order)
    IN  IF ~can_buy(user, total_cost_cny)
        THEN Rejected(next, "insufficient_funds")
        ELSE Outcome(update_user_assets(config, us2, positions, user_id),
                     positions, os2, next, TRUE, "pending", order_id)

\* place_buy_order that draws the order number and saves the draft order
\* before it validates
place_buy_order_saving_draft(user_id, stock_code, volume, price, stock_info, t) ==
    IF user_id \notin DOMAIN users THEN Rejected(next_order_number, "not_registered")
    ELSE IF stock_info = <<>> THEN Rejected(next_order_number, "no_stock_info")
    ELSE
    LET info == stock_info[1]
        order_price == IF price = NoPrice THEN get_market_buy_price(info) ELSE price
        price_type == IF price = NoPrice THEN "MARKET" ELSE "LIMIT"
        order == NewOrder(user_id, stock_code, "BUY", price_type, order_price, volume)
        valid == validate_buy_order(config, t, info, order, users[user_id].balance)
        order_id == next_order_number
        next == next_order_number + 1
        can_trade == can_place_order(t, info.market).ok
        at_current == [order EXCEPT !.order_price = info.current_price]
    IN  IF valid # "ok"
        THEN Outcome(users, positions, Put(orders, order_id, order), next,
                     FALSE, valid, 0)
        ELSE IF is_market_order(order)
        THEN IF ~can_trade THEN Rejected(next, "market_order_outside_trading_time")
             ELSE execute_buy_order_immediately(user_id, order_id, at_current, info, next)
        ELSE IF can_trade /\ order.order_price >= info.current_price
             THEN execute_buy_order_immediately(user_id, order_id, at_current, info, next)
             ELSE place_pending_buy_order(user_id, order_id, order, info, next)

place_buy_order(user_id, stock_code, volume, price, stock_info, t) ==
    IF user_id \notin DOMAIN users THEN Rejected(next_order_number, "not_registered")
    ELSE IF stock_info = <<>> THEN Rejected(next_order_number, "no_stock_info")
    ELSE
    LET info == stock_info[1]
        order_price == IF price = NoPrice THEN get_market_buy_price(info) ELSE price
        price_type == IF price = NoPrice THEN "MARKET" ELSE "LIMIT"
        order == NewOrder(user_id, stock_code, "BUY", price_type, order_price, volume)
        valid == validate_buy_order(config, t, info, order, users[user_id].balance)
        order_id == next_order_number
        next == next_order_number + 1
        can_trade == can_place_order(t, info.market).ok
        at_current == [order EXCEPT !.order_price = info.current_price]
    IN  IF valid # "ok" THEN Rejected(next_order_number, valid)
        ELSE IF is_market_order(order)
        THEN IF ~can_trade THEN Rejected(next, "market_order_outside_trading_time")
             ELSE execute_buy_order_immediately(user_id, order_id, at_current, info, next)
        ELSE IF can_trade /\ order.order_price >= info.current_price
             THEN execute_buy_order_immediately(user_id, order_id, at_current, info, next)
             ELSE place_pending_buy_order(user_id, order_id, order, info, next)

\* An executed sell that saves the position even when it is empty
execute_sell_order_keeping_empty(user_id, order_id, order, position, stock_info, next) ==
    LET user == users[user_id]
        total_income_cny ==
            calculate_sell_amount(config, order.order_volume, order.order_price,
                                  stock_info.market)
        reduced == reduce_position(position, order.order_volume)
        position2 == update_market_data(reduced, stock_info.current_price)
        us2 == [users EXCEPT ![user_id] = add_balance(user, total_income_cny)]
        ps2 == Put(positions, <<user_id, order.stock_code>>, position2)
        os2 == Put(orders, order_id,
                   fill_order(order, order.order_volume, order.order_price))
    IN  IF ~can_reduce_position(position, order.order_volume)
        THEN Rejected(next, "reduce_position_failed")
        ELSE Outcome(update_user_assets(config, us2, ps2, user_id), ps2, os2,
                     next, TRUE, "filled", order_id)

execute_sell_order_immediately(user_id, order_id, order, position, stock_info, next) ==
    LET user == users[user_id]
        total_income_cny ==
            calculate_sell_amount(config, order.order_volume, order.order_price,
                                  stock_info.market)
        reduced == reduce_position(position, order.order_volume)
        user2 == add_balance(user, total_income_cny)
        order2 == fill_order(order, order.order_volume, order.order_price)
        position2 ==
            IF ~is_empty(reduced)
            THEN update_market_data(reduced, stock_info.current_price)
            ELSE reduced
        us2 == [users EXCEPT ![user_id] = user2]
        ps2 == IF is_empty(position2)
               THEN Del(positions, <<user_id, order.stock_code>>)
               ELSE Put(positions, <<user_id, order.stock_code>>, position2)
        os2 == Put(orders, order_id, order2)
    IN  IF ~can_reduce_position(position, order.order_volume)
        THEN Rejected(next, "reduce_position_failed")
        ELSE Outcome(update_user_assets(config, us2, ps2, user_id), ps2, os2,
                     next, TRUE, "filled", order_id)

\* place_pending_sell_order that reserves the shares of the queued order
place_pending_sell_order_reserving(user_id, order_id, order, position, stock_info, next) ==
    Outcome(users,
            Put(positions, <<user_id, order.stock_code>>,
                [position EXCEPT !.available_volume = @ - order.order_volume]),
            Put(orders, order_id, order), next, TRUE, "pending", order_id)

place_pending_sell_order(user_id, order_id, order, position, stock_info, next) ==
    Outcome(users, positions, Put(orders, order_id, order), next, TRUE,
            "pending", order_id)

\* place_sell_order that queues a market order outside the trading time
place_sell_order_queueing_market(user_id, stock_code, volume, price, stock_info, t) ==
    IF user_id \notin DOMAIN users THEN Rejected(next_order_number, "not_registered")
    ELSE IF stock_info = <<>> THEN Rejected(next_order_number, "no_stock_info")
    ELSE
    LET info == stock_info[1]
        position == get_position(positions, user_id, stock_code)
        order_price == IF price = NoPrice THEN get_market_sell_price(info) ELSE price
        price_type == IF price = NoPrice THEN "MARKET" ELSE "LIMIT"
        order == NewOrder(user_id, stock_code, "SELL", price_type, order_price, volume)
        valid == validate_sell_order(t, info, order, position)
        order_id == next_order_number
        next == next_order_number + 1
        trading == is_trading_time(t, info.market)
        at_current == [order EXCEPT !.order_price = info.current_price]
    IN  IF valid # "ok" THEN Rejected(next_order_number, valid)
        ELSE IF position = <<>> THEN Rejected(next, "no_position")
        ELSE IF trading /\ (is_market_order(order) \/ order.order_price <= info.current_price)
             THEN execute_sell_order_immediately(user_id, order_id, at_current,
                                                 position[1], info, next)
             ELSE place_pending_sell_order(user_id, order_id, order, position[1],
                                           info, next)

place_sell_order(user_id, stock_code, volume, price, stock_info, t) ==
    IF user_id \notin DOMAIN users THEN Rejected(next_order_number, "not_registered")
    ELSE IF stock_info = <<>> THEN Rejected(next_order_number, "no_stock_info")
    ELSE
    LET info == stock_info[1]
        position == get_position(positions, user_id, stock_code)
        order_price == IF price = NoPrice THEN get_market_sell_price(info) ELSE price
        price_type == IF price = NoPrice THEN "MARKET" ELSE "LIMIT"
        order == NewOrder(user_id, stock_code, "SELL", price_type, order_price, volume)
        valid == validate_sell_order(t, info, order, position)
        order_id == next_order_number
        next == next_order_number + 1
        trading == is_trading_time(t, info.market)
        at_current == [order EXCEPT !.order_price = info.current_price]
    IN  IF valid # "ok" THEN Rejected(next_order_number, valid)
        ELSE IF position = <<>> THEN Rejected(next, "no_position")
        ELSE IF is_market_order(order)
        THEN IF ~trading THEN Rejected(next, "market_order_outside_trading_time")
             ELSE execute_sell_order_immediately(user_id, order_id, at_current,
                                                 position[1], info, next)
        ELSE IF trading /\ order.order_price <= info.current_price
             THEN execute_sell_order_immediately(user_id, order_id, at_current,
                                                 position[1], info, next)
             ELSE place_pending_sell_order(user_id, order_id, order, position[1],
                                           info, next)

\* The refund is calculate_buy_amount with its default market argument
DefaultMarket == "A"

\* A refund computed with the market of the order's stock
cancel_refund_of_market(cfg, order) ==
    calculate_buy_amount(cfg, order.order_volume, order.order_price,
                         detect_market(order.stock_code))

cancel_refund(cfg, order) ==
    calculate_buy_amount(cfg, order.order_volume, order.order_price, DefaultMarket)

\* cancel_order without the ownership check
cancel_order_any_owner(user_id, order_id) ==
    IF order_id \notin DOMAIN orders THEN Rejected(next_order_number, "order_not_found")
    ELSE
    LET order == orders[order_id]
        cancelled == cancel_order_status(order)
        refunded == [users EXCEPT ![user_id] = add_balance(@, cancel_refund(config, order))]
        us2 == IF is_buy_order(order) /\ user_id \in DOMAIN users
               THEN update_user_assets(config, refunded, positions, user_id)
               ELSE users
    IN  IF ~is_pending(order) THEN Rejected(next_order_number, "not_pending")
        ELSE Outcome(us2, positions, Put(orders, order_id, cancelled),
                     next_order_number, TRUE, "cancelled", order_id)

\* cancel_order without the status check
cancel_order_any_status(user_id, order_id) ==
    IF order_id \notin DOMAIN orders THEN Rejected(next_order_number, "order_not_found")
    ELSE
    LET order == orders[order_id]
        cancelled == cancel_order_status(order)
        refunded == [users EXCEPT ![user_id] = add_balance(@, cancel_refund(config, order))]
        us2 == IF is_buy_order(order) /\ user_id \in DOMAIN users
               THEN update_user_assets(config, refunded, positions, user_id)
               ELSE users
    IN  IF order.user_id # user_id THEN Rejected(next_order_number, "not_owner")
        ELSE Outcome(us2, positions, Put(orders, order_id, cancelled),
                     next_order_number, TRUE, "cancelled", order_id)

\* cancel_order marking the order FILLED in place of CANCELLED
cancel_order_filling(user_id, order_id) ==
    IF order_id \notin DOMAIN orders THEN Rejected(next_order_number, "order_not_found")
    ELSE
    LET order == orders[order_id]
        cancelled == [order EXCEPT !.status = "FILLED"]
        refunded == [users EXCEPT ![user_id] = add_balance(@, cancel_refund(config, order))]
        us2 == IF is_buy_order(order) /\ user_id \in DOMAIN users
               THEN update_user_assets(config, refunded, positions, user_id)
               ELSE users
    IN  IF order.user_id # user_id THEN Rejected(next_order_number, "not_owner")
        ELSE IF ~is_pending(order) THEN Rejected(next_order_number, "not_pending")
        ELSE Outcome(us2, positions, Put(orders, order_id, cancelled),
                     next_order_number, TRUE, "cancelled", order_id)

cancel_order(user_id, order_id) ==
    IF order_id \notin DOMAIN orders THEN Rejected(next_order_number, "order_not_found")
    ELSE
    LET order == orders[order_id]
        cancelled == cancel_order_status(order)
        refunded == [users EXCEPT ![user_id] = add_balance(@, cancel_refund(config, order))]
        us2 == IF is_buy_order(order) /\ user_id \in DOMAIN users
               THEN update_user_assets(config, refunded, positions, user_id)
               ELSE users
    IN  IF order.user_id # user_id THEN Rejected(next_order_number, "not_owner")
        ELSE IF ~is_pending(order) THEN Rejected(next_order_number, "not_pending")
        ELSE Outcome(us2, positions, Put(orders, order_id, cancelled),
                     next_order_number, TRUE, "cancelled", order_id)

\* The rollover with += in place of =
make_positions_available_accumulating(ps, user_id) ==
    [k \in DOMAIN ps |->
        IF k[1] = user_id /\ ps[k].total_volume > ps[k].available_volume
        THEN [ps[k] EXCEPT !.available_volume = @ + ps[k].total_volume]
        ELSE ps[k]]

\* The rollover applied to the positions of every user
make_positions_available_all_users(ps, user_id) ==
    [k \in DOMAIN ps |->
        IF ps[k].total_volume > ps[k].available_volume
        THEN [ps[k] EXCEPT !.available_volume = ps[k].total_volume]
        ELSE ps[k]]

make_positions_available_for_next_day(ps, user_id) ==
    [k \in DOMAIN ps |->
        IF k[1] = user_id /\ ps[k].total_volume > ps[k].available_volume
        THEN [ps[k] EXCEPT !.available_volume = ps[k].total_volume]
        ELSE ps[k]]

\* ------------------------------------------------------------------------
\* The order handlers from their suspension point on.  place_buy_order and
\* place_sell_order read the user (and the position, for a sell) from the
\* storage, await get_stock_info, and continue with the objects they read:
\* user and position are those objects, the storage is the current one.
\* ------------------------------------------------------------------------
execute_buy_order_immediately_resumed(user, user_id, order_id, order, stock_info, next) ==
    LET total_cost_cny ==
            calculate_buy_amount(config, order.order_volume, order.order_price,
                                 stock_info.market)
        user2 == deduct_balance(user, total_cost_cny)
        order2 == fill_order(order, order.order_volume, order.order_price)
        position_data == get_position(positions, user_id, order.stock_code)
        position ==
            IF position_data # <<>>
            THEN add_position(position_data[1], order.order_volume, order.order_price)
            ELSE NewPosition(order.order_volume, stock_info.current_price,
                             stock_info.market)
        position2 == update_market_data(position, stock_info.current_price)
        us2 == [users EXCEPT ![user_id] = user2]
        ps2 == Put(positions, <<user_id, order.stock_code>>, position2)
        os2 == Put(orders, order_id, order2)
    IN  IF ~can_buy(user, total_cost_cny)
        THEN Rejected(next, "insufficient_funds")
        ELSE Outcome(update_user_assets(config, us2, ps2, user_id), ps2, os2,
                     next, TRUE, "filled", order_id)

place_pending_buy_order_resumed(user, user_id, order_id, order, stock_info, next) ==
    LET total_cost_cny ==
            calculate_buy_amount(config, order.order_volume, order.order_price,
                                 stock_info.market)
        us2 == [users EXCEPT ![user_id] = deduct_balance(user, total_cost_cny)]
        os2 == Put(orders, order_id, order)
    IN  IF ~can_buy(user, total_cost_cny)
        THEN Rejected(next, "insufficient_funds")
        ELSE Outcome(update_user_assets(config, us2, positions, user_id),
                     positions, os2, next, TRUE, "pending", order_id)

\* place_buy_order that reads the user again after get_stock_info
place_buy_order_rereading(user, user_id, stock_code, volume, price, stock_info, t) ==
    place_buy_order(user_id, stock_code, volume, price, stock_info, t)

place_buy_order_resumed(user, user_id, stock_code, volume, price, stock_info, t) ==
    IF stock_info = <<>> THEN Rejected(next_order_number, "no_stock_info")
    ELSE
    LET info == stock_info[1]
        order_price == IF price = NoPrice THEN get_market_buy_price(info) ELSE price
        price_type == IF price = NoPrice THEN "MARKET" ELSE "LIMIT"
        order == NewOrder(user_id, stock_code, "BUY", price_type, order_price, volume)
        valid == validate_buy_order(config, t, info, order, user.balance)
        order_id == next_order_number
        next == next_order_number + 1
        can_trade == can_place_order(t, info.market).ok
        at_current == [order EXCEPT !.order_price = info.current_price]
    IN  IF valid # "ok" THEN Rejected(next_order_number, valid)
        ELSE IF is_market_order(order)
        THEN IF ~can_trade THEN Rejected(next, "market_order_outside_trading_time")
             ELSE execute_buy_order_immediately_resumed(user, user_id, order_id,
                                                        at_current, info, next)
        ELSE IF can_trade /\ order.order_price >= info.current_price
             THEN execute_buy_order_immediately_resumed(user, user_id, order_id,
                                                        at_current, info, next)
             ELSE place_pending_buy_order_resumed(user, user_id, order_id, order,
                                                  info, next)

execute_sell_order_immediately_resumed(user, user_id, order_id, order, position, stock_info, next) ==
    LET total_income_cny ==
            calculate_sell_amount(config, order.order_volume, order.order_price,
                                  stock_info.market)
        reduced == reduce_position(position, order.order_volume)
        user2 == add_balance(user, total_income_cny)
        order2 == fill_order(order, order.order_volume, order.order_price)
        position2 ==
            IF ~is_empty(reduced)
            THEN update_market_data(reduced, stock_info.current_price)
            ELSE reduced
        us2 == [users EXCEPT ![user_id] = user2]
        ps2 == IF is_empty(position2)
               THEN Del(positions, <<user_id, order.stock_code>>)
               ELSE Put(positions, <<user_id, order.stock_code>>, position2)
        os2 == Put(orders, order_id, order2)
    IN  IF ~can_reduce_position(position, order.order_volume)
        THEN Rejected(next, "reduce_position_failed")
        ELSE Outcome(update_user_assets(config, us2, ps2, user_id), ps2, os2,
                     next, TRUE, "filled", order_id)

\* place_sell_order that reads the user and the position again after
\* get_stock_info
place_sell_order_rereading(user, position, user_id, stock_code, volume, price, stock_info, t) ==
    place_sell_order(user_id, stock_code, volume, price, stock_info, t)

\* position is <<>> when the user held no position record for the stock
place_sell_order_resumed(user, position, user_id, stock_code, volume, price, stock_info, t) ==
    IF stock_info = <<>> THEN Rejected(next_order_number, "no_stock_info")
    ELSE
    LET info == stock_info[1]
        order_price == IF price = NoPrice THEN get_market_sell_price(info) ELSE price
        price_type == IF price = NoPrice THEN "MARKET" ELSE "LIMIT"
        order == NewOrder(user_id, stock_code, "SELL", price_type, order_price, volume)
        valid == validate_sell_order(t, info, order, position)
        order_id == next_order_number
        next == next_order_number + 1
        trading == is_trading_time(t, info.market)
        at_current == [order EXCEPT !.order_price = info.current_price]
    IN  IF valid # "ok" THEN Rejected(next_order_number, valid)
        ELSE IF position = <<>> THEN Rejected(next, "no_position")
        ELSE IF is_market_order(order)
        THEN IF ~trading THEN Rejected(next, "market_order_outside_trading_time")
             ELSE execute_sell_order_immediately_resumed(user, user_id, order_id,
                                                         at_current, position[1],
                                                         info, next)
        ELSE IF trading /\ order.order_price <= info.current_price
             THEN execute_sell_order_immediately_resumed(user, user_id, order_id,
                                                         at_current, position[1],
                                                         info, next)
             ELSE place_pending_sell_order(user_id, order_id, order, position[1],
                                           info, next)

\* ------------------------------------------------------------------------
\* The storage writes of a handler, in the order it issues them.  out is
\* what the handler returns when every call succeeds.  A handler saves the
\* user object it changed (the balance is new, total_assets is the one read),
\* and update_user_assets saves the user once more with the new total.
\* ------------------------------------------------------------------------
SaveUser(user_id, user) == [kind |-> "user", key |-> user_id, value |-> <<user>>]

\* value is <<>> for delete_position
SavePosition(key, value) == [kind |-> "position", key |-> key, value |-> value]

SaveOrder(order_id, order) == [kind |-> "order", key |-> order_id, value |-> <<order>>]

saves_of(out) ==
    IF ~out.ok THEN <<>>
    ELSE
    LET order == out.orders[out.order_id]
        user_id == order.user_id
        key == <<user_id, order.stock_code>>
        changed == [users[user_id] EXCEPT !.balance = out.users[user_id].balance]
        save_changed == SaveUser(user_id, changed)
        save_assets == SaveUser(user_id, out.users[user_id])
        save_position ==
            SavePosition(key, IF key \in DOMAIN out.positions
                              THEN <<out.positions[key]>> ELSE <<>>)
        save_order == SaveOrder(out.order_id, order)
    IN  IF out.reason = "filled"
        THEN <<save_changed, save_position, save_order, save_assets>>
        ELSE IF out.reason = "pending"
        THEN IF is_buy_order(order)
             THEN <<save_order, save_changed, save_assets>>
             ELSE <<save_order>>
        ELSE IF is_buy_order(order)
             THEN <<save_changed, save_assets, save_order>>
             ELSE <<save_order>>

ApplySave(st, w) ==
    IF w.kind = "user" THEN [st EXCEPT !.users = Put(@, w.key, w.value[1])]
    ELSE IF w.kind = "order" THEN [st EXCEPT !.orders = Put(@, w.key, w.value[1])]
    ELSE IF w.value = <<>> THEN [st EXCEPT !.positions = Del(@, w.key)]
    ELSE [st EXCEPT !.positions = Put(@, w.key, w.value[1])]

\* The storage after the first n writes
RECURSIVE ApplySaves(_, _, _)
ApplySaves(st, saves, n) ==
    IF n = 0 THEN st
    ELSE ApplySave(ApplySaves(st, saves, n - 1), saves[n])

\* ------------------------------------------------------------------------
\* Actions: one per call of the engine
\* ------------------------------------------------------------------------
\* The record of the last call that changed the storage.  A call that is
\* rejected before it has drawn an order number leaves no trace.
Last(op, user_id, stock_code, volume, out) ==
    IF out.ok
    THEN [op |-> op, user |-> user_id, stock |-> stock_code, volume |-> volume,
          order_id |-> out.order_id, ok |-> TRUE, reason |-> out.reason]
    ELSE IF out.next # next_order_number
    THEN [op |-> op, user |-> user_id, stock |-> stock_code, volume |-> volume,
          order_id |-> next_order_number, ok |-> FALSE, reason |-> out.reason]
    ELSE last

Commit(out) ==
    /\ out.next <= MaxOrders + 1
    /\ users' = out.users
    /\ positions' = out.positions
    /\ orders' = out.orders
    /\ next_order_number' = out.next
    /\ UNCHANGED <<config, clock, answer, inflight, faults>>

Init ==
    /\ users = [u \in Users |->
                    [balance |-> InitialBalance(u), total_assets |-> InitialBalance(u)]]
    /\ positions = <<>>
    /\ orders = <<>>
    /\ next_order_number = 1
    /\ config = [hkd |-> DefaultHkdRate, usd |-> DefaultUsdRate]
    /\ last = [op |-> "init", user |-> "-", stock |-> "-", volume |-> 0,
               order_id |-> 0, ok |-> TRUE, reason |-> "init"]
    /\ clock = [market |-> "A", t |-> Instant(0, 2, 0)]
    /\ answer = NoAnswer
    /\ inflight = NoRequests
    /\ faults = 0

PlaceBuy ==
    \E u \in Users :
    \E s \in StocksOf(u) :
    \E v \in Volumes(u, s), p \in PriceInputs(u, s), q \in QuoteResults(u, s),
       t \in EngineInstants(u, detect_market(s)) :
        LET out == place_buy_order(u, s, v, p, q, t)
        IN  Commit(out) /\ last' = Last("buy", u, s, v, out)

PlaceSell ==
    \E u \in Users :
    \E s \in StocksOf(u) :
    \E v \in Volumes(u, s), p \in PriceInputs(u, s), q \in QuoteResults(u, s),
       t \in EngineInstants(u, detect_market(s)) :
        LET out == place_sell_order(u, s, v, p, q, t)
        IN  Commit(out) /\ last' = Last("sell", u, s, v, out)

CancelOrder ==
    \E u \in Users, id \in 1 .. MaxOrders :
        LET out == cancel_order(u, id)
        IN  Commit(out) /\ last' = Last("cancel", u, "-", 0, out)

AdvanceTradingDay ==
    \E u \in Users :
        /\ positions' = make_positions_available_for_next_day(positions, u)
        /\ last' = [op |-> "advance", user |-> u, stock |-> "-", volume |-> 0,
                    order_id |-> 0, ok |-> TRUE, reason |-> "advanced"]
        /\ UNCHANGED <<users, orders, next_order_number, config, clock, answer, inflight,
                       faults>>

Next ==
    \/ PlaceBuy
    \/ PlaceSell
    \/ CancelOrder
    \/ AdvanceTradingDay

Spec == Init /\ [][Next]_vars

\* The buy and cancel calls under every exchange-rate configuration
InitRates ==
    /\ users = [u \in Users |->
                    [balance |-> InitialBalance(u), total_assets |-> InitialBalance(u)]]
    /\ positions = <<>>
    /\ orders = <<>>
    /\ next_order_number = 1
    /\ config \in RateConfigs
    /\ last = [op |-> "init", user |-> "-", stock |-> "-", volume |-> 0,
               order_id |-> 0, ok |-> TRUE, reason |-> "init"]
    /\ clock = [market |-> "A", t |-> Instant(0, 2, 0)]
    /\ answer = NoAnswer
    /\ inflight = NoRequests
    /\ faults = 0

NextRates ==
    \/ PlaceBuy
    \/ CancelOrder

SpecRates == InitRates /\ [][NextRates]_vars

\* The session resolvers asked at every instant of the calendar window
EngineIdle ==
    /\ users = [u \in Users |->
                    [balance |-> InitialBalance(u), total_assets |-> InitialBalance(u)]]
    /\ positions = <<>>
    /\ orders = <<>>
    /\ next_order_number = 1
    /\ last = [op |-> "init", user |-> "-", stock |-> "-", volume |-> 0,
               order_id |-> 0, ok |-> TRUE, reason |-> "init"]
    /\ inflight = NoRequests
    /\ faults = 0

InitClock ==
    /\ EngineIdle
    /\ config = [hkd |-> DefaultHkdRate, usd |-> DefaultUsdRate]
    /\ clock \in ClockInputs
    /\ answer = NoAnswer

CanPlaceOrder ==
    /\ answer' = [op |-> "can_place_order",
                  ok |-> can_place_order(clock.t, clock.market).ok,
                  reason |-> can_place_order(clock.t, clock.market).reason]
    /\ UNCHANGED <<users, positions, orders, next_order_number, config, last, clock, inflight,
                 faults>>

GetUsTradingSession ==
    /\ clock.market = "US"
    /\ answer' = [op |-> "get_us_trading_session",
                  session_type |-> get_us_trading_session(clock.t)]
    /\ UNCHANGED <<users, positions, orders, next_order_number, config, last, clock, inflight,
                 faults>>

IsMarketOpen ==
    /\ answer' = [op |-> "is_market_open",
                  open |-> is_market_open(clock.t, clock.market)]
    /\ UNCHANGED <<users, positions, orders, next_order_number, config, last, clock, inflight,
                 faults>>

NextClock ==
    \/ CanPlaceOrder
    \/ GetUsTradingSession
    \/ IsMarketOpen

SpecClock == InitClock /\ [][NextClock]_vars

\* The market rules engine asked for fees, settlement amounts and the
\* validation of buy orders
InitRules ==
    /\ EngineIdle
    /\ config \in RateConfigs
    /\ clock = [market |-> "A", t |-> Instant(0, 2, 0)]
    /\ answer = NoAnswer

RulesFrame ==
    UNCHANGED <<users, positions, orders, next_order_number, config, last, clock,
                inflight, faults>>

CalculateCommission ==
    /\ \E market \in Markets :
       \E volume \in FeeVolumes(market), price \in FeePrices(market) :
           answer' = [op |-> "calculate_commission", market |-> market,
                      amount |-> volume * price,
                      value |-> calculate_commission(config, volume * price, market)]
    /\ RulesFrame

CalculateBuyAmount ==
    /\ \E market \in Markets :
       \E volume \in FeeVolumes(market), price \in FeePrices(market) :
           answer' = [op |-> "calculate_buy_amount", market |-> market,
                      volume |-> volume, price |-> price,
                      value |-> calculate_buy_amount(config, volume, price, market)]
    /\ RulesFrame

CalculateSellAmount ==
    /\ \E market \in Markets :
       \E volume \in FeeVolumes(market), price \in FeePrices(market) :
           answer' = [op |-> "calculate_sell_amount", market |-> market,
                      volume |-> volume, price |-> price,
                      value |-> calculate_sell_amount(config, volume, price, market)]
    /\ RulesFrame

ValidateBuyOrder ==
    /\ \E s \in Stocks :
       \E v \in Volumes("u1", s), p \in PriceInputs("u1", s), q \in Quotes(s),
          t \in EngineInstants("u1", detect_market(s)), b \in BalanceInputs :
           LET order_price == IF p = NoPrice THEN get_market_buy_price(q) ELSE p
               price_type == IF p = NoPrice THEN "MARKET" ELSE "LIMIT"
               order == NewOrder("u1", s, "BUY", price_type, order_price, v)
           IN  answer' = [op |-> "validate_buy_order", stock_info |-> q,
                          order |-> order, user_balance |-> b, t |-> t,
                          value |-> validate_buy_order(config, t, q, order, b)]
    /\ RulesFrame

\* validate_sell_order, together with what calculate_sell_amount credits when
\* the order is executed at the current price
ValidateSellOrder ==
    /\ \E s \in SellStocks :
       \E v \in SellVolumes(s), p \in SellPrices(s), q \in SellQuotes(s),
          t \in EngineInstants("u1", detect_market(s)) :
       \E position \in HeldPositions(q) :
           LET order_price == IF p = NoPrice THEN get_market_sell_price(q) ELSE p
               price_type == IF p = NoPrice THEN "MARKET" ELSE "LIMIT"
               order == NewOrder("u1", s, "SELL", price_type, order_price, v)
           IN  answer' = [op |-> "validate_sell_order", stock_info |-> q,
                          order |-> order, position |-> position, t |-> t,
                          value |-> validate_sell_order(t, q, order, position),
                          net |-> calculate_sell_amount(config, v, q.current_price,
                                                        q.market)]
    /\ RulesFrame

NextRules ==
    \/ CalculateCommission
    \/ CalculateBuyAmount
    \/ CalculateSellAmount
    \/ ValidateBuyOrder
    \/ ValidateSellOrder

SpecRules == InitRules /\ [][NextRules]_vars

\* Order requests of several tasks interleaved at their suspension point;
\* last records what the request that finished last returned.
Returned(req, out) ==
    [op |-> req.op, user |-> req.user_id, stock |-> req.stock_code,
     volume |-> req.volume, order_id |-> out.order_id, ok |-> out.ok,
     reason |-> out.reason]

InitRace ==
    /\ EngineIdle
    /\ config = [hkd |-> DefaultHkdRate, usd |-> DefaultUsdRate]
    /\ clock = [market |-> "A", t |-> Instant(0, 2, 0)]
    /\ answer = NoAnswer

\* place_buy_order up to the await of get_stock_info
BeginBuy ==
    /\ \E r \in Tasks, u \in Users, v \in RaceVolumes, p \in RacePrices :
           /\ inflight[r] = Idle
           /\ inflight' = [inflight EXCEPT ![r] =
                  [op |-> "buy", user_id |-> u, stock_code |-> RaceStock,
                   volume |-> v, price |-> p, user |-> users[u],
                   position |-> <<>>]]
    /\ UNCHANGED <<users, positions, orders, next_order_number, config, last, clock,
                   answer, faults>>

\* place_sell_order up to the await of get_stock_info
BeginSell ==
    /\ \E r \in Tasks, u \in Users, v \in RaceVolumes, p \in RacePrices :
           /\ inflight[r] = Idle
           /\ inflight' = [inflight EXCEPT ![r] =
                  [op |-> "sell", user_id |-> u, stock_code |-> RaceStock,
                   volume |-> v, price |-> p, user |-> users[u],
                   position |-> get_position(positions, u, RaceStock)]]
    /\ UNCHANGED <<users, positions, orders, next_order_number, config, last, clock,
                   answer, faults>>

Resume(r, out) ==
    /\ out.next <= MaxRaceOrders + 1
    /\ users' = out.users
    /\ positions' = out.positions
    /\ orders' = out.orders
    /\ next_order_number' = out.next
    /\ last' = Returned(inflight[r], out)
    /\ inflight' = [inflight EXCEPT ![r] = Idle]
    /\ UNCHANGED <<config, clock, answer, faults>>

\* place_buy_order from the return of get_stock_info to its end
FinishBuy ==
    \E r \in Tasks, q \in RaceQuoteResults, t \in RaceInstants :
        /\ inflight[r].op = "buy"
        /\ LET req == inflight[r]
           IN  Resume(r, place_buy_order_resumed(req.user, req.user_id, req.stock_code,
                                                 req.volume, req.price, q, t))

\* place_sell_order from the return of get_stock_info to its end
FinishSell ==
    \E r \in Tasks, q \in RaceQuoteResults, t \in RaceInstants :
        /\ inflight[r].op = "sell"
        /\ LET req == inflight[r]
           IN  Resume(r, place_sell_order_resumed(req.user, req.position, req.user_id,
                                                  req.stock_code, req.volume,
                                                  req.price, q, t))

NextRace ==
    \/ BeginBuy
    \/ BeginSell
    \/ FinishBuy
    \/ FinishSell
    \/ AdvanceTradingDay

SpecRace == InitRace /\ [][NextRace]_vars

\* The engine with collaborator calls that fail.  failing = 0: a call made
\* before the order number is drawn raises (get_user, get_stock_info,
\* get_order); failing = n > 0: the n-th storage write of the handler raises
\* and the n - 1 writes before it stay.  place_buy_order catches the
\* exception and returns a failure; place_sell_order and cancel_order let it
\* propagate.
\* Only place_buy_order wraps its body in try/except
catches_exceptions(op) == op = "buy"

\* raised: the exception reaches the caller instead of a (False, reason)
\* result
Failed(op, user_id, stock_code, volume, order_id) ==
    [op |-> op, user |-> user_id, stock |-> stock_code, volume |-> volume,
     order_id |-> order_id, ok |-> FALSE, reason |-> "collaborator_failed",
     raised |-> ~catches_exceptions(op)]

CommitFailing(out, failing) ==
    LET st == ApplySaves([users |-> users, positions |-> positions, orders |-> orders],
                         saves_of(out), IF failing = 0 THEN 0 ELSE failing - 1)
    IN  /\ faults < MaxFaults
        /\ out.next <= MaxOrders + 1
        /\ users' = st.users
        /\ positions' = st.positions
        /\ orders' = st.orders
        /\ next_order_number' = IF failing = 0 THEN next_order_number ELSE out.next
        /\ faults' = faults + 1
        /\ UNCHANGED <<config, clock, answer, inflight>>

PlaceBuyFailing ==
    \E u \in Users :
    \E s \in StocksOf(u) :
    \E v \in Volumes(u, s), p \in PriceInputs(u, s), q \in QuoteResults(u, s),
       t \in EngineInstants(u, detect_market(s)) :
        LET out == place_buy_order(u, s, v, p, q, t)
        IN  \E failing \in 0 .. Len(saves_of(out)) :
                /\ CommitFailing(out, failing)
                /\ last' = Failed("buy", u, s, v, out.order_id)

PlaceSellFailing ==
    \E u \in Users :
    \E s \in StocksOf(u) :
    \E v \in Volumes(u, s), p \in PriceInputs(u, s), q \in QuoteResults(u, s),
       t \in EngineInstants(u, detect_market(s)) :
        LET out == place_sell_order(u, s, v, p, q, t)
        IN  \E failing \in 0 .. Len(saves_of(out)) :
                /\ CommitFailing(out, failing)
                /\ last' = Failed("sell", u, s, v, out.order_id)

CancelOrderFailing ==
    \E u \in Users, id \in 1 .. MaxOrders :
        LET out == cancel_order(u, id)
        IN  \E failing \in 0 .. Len(saves_of(out)) :
                /\ CommitFailing(out, failing)
                /\ last' = Failed("cancel", u, "-", 0, out.order_id)

NextFaults ==
    \/ PlaceBuy
    \/ PlaceSell
    \/ CancelOrder
    \/ AdvanceTradingDay
    \/ PlaceBuyFailing
    \/ PlaceSellFailing
    \/ CancelOrderFailing

SpecFaults == Init /\ [][NextFaults]_vars

\* The currency service asked under every configuration of the two rates
InitFx ==
    /\ EngineIdle
    /\ config \in FxConfigs
    /\ clock = [market |-> "A", t |-> Instant(0, 2, 0)]
    /\ answer = NoAnswer

GetExchangeRate ==
    /\ \E from_currency \in Currencies, to_currency \in Currencies :
           answer' = [op |-> "get_exchange_rate",
                      from_currency |-> from_currency,
                      to_currency |-> to_currency,
                      rate |-> get_exchange_rate(config, from_currency, to_currency)]
    /\ UNCHANGED <<users, positions, orders, next_order_number, config, last, clock, inflight,
                 faults>>

NextFx == GetExchangeRate

SpecFx == InitFx /\ [][NextFx]_vars

\* ------------------------------------------------------------------------
\* Properties
\* ------------------------------------------------------------------------
DefaultConfig == [hkd |-> DefaultHkdRate, usd |-> DefaultUsdRate]

OrderIds == 1 .. MaxOrders

\* C1: order status is monotone.  A stored order stays stored and its status
\* either stays or moves PENDING -> FILLED or PENDING -> CANCELLED; cancel_order
\* on a FILLED or CANCELLED order is rejected; filled_volume <= order_volume
\* holds for every stored order.
C1_StatusStep ==
    \A id \in DOMAIN orders :
        /\ id \in DOMAIN orders'
        /\ \/ orders'[id].status = orders[id].status
           \/ /\ orders[id].status = "PENDING"
              /\ orders'[id].status \in {"FILLED", "CANCELLED"}

C1_OrderState ==
    \A id \in DOMAIN orders :
        /\ orders[id].status \in {"PENDING", "FILLED", "CANCELLED"}
        /\ orders[id].filled_volume <= orders[id].order_volume
        /\ orders[id].status # "PENDING" =>
               \A u \in Users : ~cancel_order(u, id).ok

C1_StatusMonotone == [][C1_StatusStep]_vars /\ []C1_OrderState

C1_Witness ==
    \E i \in DOMAIN orders, j \in DOMAIN orders :
        /\ orders[i].status = "FILLED"
        /\ orders[j].status = "CANCELLED"
        /\ last.op = "cancel" /\ last.order_id = j

\* C2: the stored total_assets of every user is the stored balance plus the
\* sum of the user's stored positions' market values, each converted from the
\* position's market currency to CNY.
RECURSIVE PositionsValueCny(_)
PositionsValueCny(keys) ==
    IF keys = {} THEN 0
    ELSE LET k == CHOOSE x \in keys : TRUE
         IN  convert_to_cny(config, positions[k].market_value, positions[k].market)
             + PositionsValueCny(keys \ {k})

C2_TotalAssets ==
    \A u \in Users :
        users[u].total_assets =
            users[u].balance + PositionsValueCny({k \in DOMAIN positions : k[1] = u})

C2_Witness ==
    /\ \E k \in DOMAIN positions : k[1] = "u1" /\ positions[k].market = "A"
    /\ \E k \in DOMAIN positions : k[1] = "u1" /\ positions[k].market # "A"
    /\ users["u1"].total_assets # users["u1"].balance

\* The amount debited when the order was placed: the settlement amount of
\* the order in the market of its stock
DebitAtPlacement(order) ==
    calculate_buy_amount(config, order.order_volume, order.order_price,
                         detect_market(order.stock_code))

\* The step queues the buy order id as PENDING
QueuesBuy(id) ==
    /\ id \notin DOMAIN orders
    /\ id \in DOMAIN orders'
    /\ orders'[id].status = "PENDING"
    /\ orders'[id].order_type = "BUY"

\* The step cancels the pending buy order id
CancelsBuy(id) ==
    /\ id \in DOMAIN orders
    /\ orders[id].status = "PENDING"
    /\ orders[id].order_type = "BUY"
    /\ orders'[id].status = "CANCELLED"

\* C3: in every market a LIMIT buy queued as PENDING debits the balance by its
\* settlement amount and creates no position, and cancelling it gives back
\* exactly the amount debited.
C3_Step ==
    \A id \in OrderIds :
        /\ QueuesBuy(id) =>
              /\ users'[orders'[id].user_id].balance =
                     users[orders'[id].user_id].balance - DebitAtPlacement(orders'[id])
              /\ positions' = positions
        /\ CancelsBuy(id) =>
              /\ users'[orders[id].user_id].balance =
                     users[orders[id].user_id].balance + DebitAtPlacement(orders[id])
              /\ positions' = positions

C3_CancelRestoresBalance == [][C3_Step]_vars

\* C4 as stated: the refund of a cancelled buy is calculate_buy_amount with
\* market 'A', and for every HK or US order it differs from the amount debited.
C4_RefundStep ==
    \A id \in OrderIds :
        CancelsBuy(id) =>
            users'[orders[id].user_id].balance =
                users[orders[id].user_id].balance
                + calculate_buy_amount(config, orders[id].order_volume,
                                       orders[id].order_price, "A")

C4_RefundDiffers ==
    \A id \in DOMAIN orders :
        (/\ orders[id].status = "PENDING"
         /\ orders[id].order_type = "BUY"
         /\ detect_market(orders[id].stock_code) # "A")
        => calculate_buy_amount(config, orders[id].order_volume,
                                orders[id].order_price, "A")
           # DebitAtPlacement(orders[id])

C4_AsStated == C4_RefundDiffers

\* C4 amended: the refund of a cancelled buy is calculate_buy_amount with
\* market 'A' whatever the market of the order; under the default exchange
\* rates it differs from the amount debited for every HK or US order.
C4_RefundDefaultMarket ==
    /\ [][C4_RefundStep]_vars
    /\ [](config = DefaultConfig => C4_RefundDiffers)

C4_Witness ==
    /\ config = DefaultConfig
    /\ last.op = "cancel"
    /\ last.order_id \in DOMAIN orders
    /\ orders[last.order_id].status = "CANCELLED"
    /\ orders[last.order_id].order_type = "BUY"
    /\ detect_market(orders[last.order_id].stock_code) = "HK"

\* The sell requests the model issues for user u and stock s
SellOutcomes(u, s) ==
    { [volume |-> v, out |-> place_sell_order(u, s, v, p, q, t)] :
        v \in Volumes(u, s), p \in PriceInputs(u, s), q \in QuoteResults(u, s),
        t \in EngineInstants(u, detect_market(s)) }

BuyOutcomes(u, s) ==
    { [volume |-> v, out |-> place_buy_order(u, s, v, p, q, t)] :
        v \in Volumes(u, s), p \in PriceInputs(u, s), q \in QuoteResults(u, s),
        t \in EngineInstants(u, detect_market(s)) }

LeavesStore(out) ==
    /\ out.users = users
    /\ out.positions = positions
    /\ out.orders = orders

\* The step stores the new sell order id
StoresSell(id) ==
    /\ id \notin DOMAIN orders
    /\ id \in DOMAIN orders'
    /\ orders'[id].order_type = "SELL"

\* C5: T+1.  A position created by a buy starts with available_volume 0 and
\* keeps it until advanceTradingDay runs for its user; a sell whose volume
\* exceeds available_volume is rejected and changes nothing, however large
\* total_volume is.
C5_Step ==
    /\ \A k \in (DOMAIN positions') \ (DOMAIN positions) :
           positions'[k].available_volume = 0
    /\ \A k \in DOMAIN positions :
           (/\ positions[k].available_volume = 0
            /\ ~(last'.op = "advance" /\ last'.user = k[1]))
           => /\ k \in DOMAIN positions'
              /\ positions'[k].available_volume = 0
    /\ \A id \in OrderIds :
           StoresSell(id) =>
               LET k == <<orders'[id].user_id, orders'[id].stock_code>>
               IN  /\ k \in DOMAIN positions
                   /\ orders'[id].order_volume <= positions[k].available_volume

C5_Rejects ==
    \A k \in DOMAIN positions :
        \A r \in SellOutcomes(k[1], k[2]) :
            r.volume > positions[k].available_volume =>
                ~r.out.ok /\ LeavesStore(r.out)

C5_TPlusOne == [][C5_Step]_vars /\ []C5_Rejects

C5_Witness ==
    \E k \in DOMAIN positions :
        /\ positions[k].available_volume = 0
        /\ last.op = "buy" /\ last.reason = "filled" /\ last.user = k[1]
        /\ \E r \in SellOutcomes(k[1], k[2]) :
               /\ r.volume <= positions[k].total_volume
               /\ r.out.reason = "insufficient_available"

\* C6: every stored position has 0 <= available_volume <= total_volume.
C6_AvailableWithinTotal ==
    \A k \in DOMAIN positions :
        /\ 0 <= positions[k].available_volume
        /\ positions[k].available_volume <= positions[k].total_volume

C6_Witness ==
    \E k \in DOMAIN positions :
        /\ 0 < positions[k].available_volume
        /\ positions[k].available_volume < positions[k].total_volume

\* C7: no stored position has total_volume 0: an executed sell of the whole
\* position deletes the record.
C7_NoEmptyStored ==
    \A k \in DOMAIN positions : positions[k].total_volume # 0

C7_Step ==
    \A id \in OrderIds :
        (StoresSell(id) /\ orders'[id].status = "FILLED") =>
            LET k == <<orders'[id].user_id, orders'[id].stock_code>>
            IN  IF orders'[id].order_volume = positions[k].total_volume
                THEN k \notin DOMAIN positions'
                ELSE /\ k \in DOMAIN positions'
                     /\ positions'[k].total_volume =
                            positions[k].total_volume - orders'[id].order_volume

C7_EmptyPositionDeleted == []C7_NoEmptyStored /\ [][C7_Step]_vars

C7_Witness ==
    /\ last.op = "sell" /\ last.reason = "filled"
    /\ <<last.user, last.stock>> \notin DOMAIN positions

\* C8: advanceTradingDay(user) leaves every position of the user with
\* available_volume = total_volume and changes nothing else.
C8_Step ==
    last'.op = "advance" =>
        /\ users' = users
        /\ orders' = orders
        /\ next_order_number' = next_order_number
        /\ DOMAIN positions' = DOMAIN positions
        /\ \A k \in DOMAIN positions :
               IF k[1] = last'.user
               THEN /\ positions'[k].available_volume = positions'[k].total_volume
                    /\ positions'[k] =
                           [positions[k] EXCEPT
                               !.available_volume = positions[k].total_volume]
               ELSE positions'[k] = positions[k]

C8_AdvanceFrame == [][C8_Step]_vars

C8_Witness ==
    /\ last.op = "advance"
    /\ \E k \in DOMAIN positions :
           k[1] = last.user /\ positions[k].available_volume = positions[k].total_volume
    /\ \E k \in DOMAIN positions :
           k[1] # last.user /\ positions[k].available_volume < positions[k].total_volume

\* C9: cancel_order on an order id that does not exist, on another user's
\* order, or on an order that is not PENDING fails with the reason of that
\* case and leaves users, positions and orders unchanged.
C9_CancelRejections ==
    \A u \in Users, id \in OrderIds :
        LET out == cancel_order(u, id)
            expected ==
                IF id \notin DOMAIN orders THEN "order_not_found"
                ELSE IF orders[id].user_id # u THEN "not_owner"
                ELSE IF orders[id].status # "PENDING" THEN "not_pending"
                ELSE "cancelled"
        IN  /\ out.reason = expected
            /\ out.ok <=> expected = "cancelled"
            /\ ~out.ok => LeavesStore(out)

C9_Witness ==
    /\ \E u \in Users, id \in OrderIds : cancel_order(u, id).reason = "order_not_found"
    /\ \E u \in Users, id \in OrderIds : cancel_order(u, id).reason = "not_owner"
    /\ \E u \in Users, id \in OrderIds : cancel_order(u, id).reason = "not_pending"
    /\ DOMAIN positions # {}

\* C10: a buy or sell request that is rejected modifies no user, position or
\* order record.
C10_RejectionLeavesStore ==
    \A u \in Users : \A s \in StocksOf(u) :
        /\ \A r \in BuyOutcomes(u, s) : ~r.out.ok => LeavesStore(r.out)
        /\ \A r \in SellOutcomes(u, s) : ~r.out.ok => LeavesStore(r.out)

BuyReasons == UNION {{r.out.reason : r \in BuyOutcomes("u1", s)} : s \in Stocks}

SellReasons == UNION {{r.out.reason : r \in SellOutcomes("u1", s)} : s \in Stocks}

C10_Witness ==
    /\ {"insufficient_funds", "suspended", "at_limit_up", "price_above_limit_up",
        "min_amount", "not_trading_time"} \subseteq BuyReasons
    /\ {"no_position", "insufficient_available", "not_trading_time"} \subseteq SellReasons
    /\ DOMAIN orders # {}

\* The buy and sell requests the model issues for user u and stock s, with
\* their inputs
BuyCalls(u, s) ==
    { [volume |-> v, price |-> p, quote |-> q, t |-> t,
       out |-> place_buy_order(u, s, v, p, q, t)] :
        v \in Volumes(u, s), p \in PriceInputs(u, s), q \in QuoteResults(u, s),
        t \in EngineInstants(u, detect_market(s)) }

SellCalls(u, s) ==
    { [volume |-> v, price |-> p, quote |-> q, t |-> t,
       out |-> place_sell_order(u, s, v, p, q, t)] :
        v \in Volumes(u, s), p \in PriceInputs(u, s), q \in QuoteResults(u, s),
        t \in EngineInstants(u, detect_market(s)) }

PlaceCalls(u, s) == BuyCalls(u, s) \cup SellCalls(u, s)

\* The order an accepted call stored
StoredBy(c) == c.out.orders[c.out.order_id]

MarketCallSettled(s, c) ==
    IF c.out.ok
    THEN /\ c.out.order_id \notin DOMAIN orders
         /\ StoredBy(c).price_type = "MARKET"
         /\ StoredBy(c).status = "FILLED"
         /\ StoredBy(c).order_price = c.quote[1].current_price
         /\ can_place_order(c.t, detect_market(s)).ok
    ELSE c.out.orders = orders

\* C11: a MARKET order is never stored as PENDING: a request without a price
\* is either filled at once at the quote's current price, and then the
\* market's session is tradable at that instant, or rejected with no order
\* stored.
C11_MarketOrderNeverPending ==
    /\ \A id \in DOMAIN orders :
           orders[id].price_type = "MARKET" => orders[id].status = "FILLED"
    /\ \A u \in Users : \A s \in StocksOf(u) :
           \A c \in PlaceCalls(u, s) :
               c.price = NoPrice => MarketCallSettled(s, c)

C11_Witness ==
    /\ \E id \in DOMAIN orders : orders[id].price_type = "MARKET"
    /\ \E s \in Stocks : \E c \in SellCalls("u1", s) :
           c.price = NoPrice /\ c.out.reason = "market_order_outside_trading_time"
    /\ \E s \in Stocks : \E c \in BuyCalls("u1", s) :
           c.price = NoPrice /\ c.out.reason = "not_trading_time"

\* An accepted LIMIT request is filled at the current price exactly when the
\* session is tradable and the price crosses, and is stored PENDING otherwise
LimitCallSettled(s, c, crosses) ==
    (c.price # NoPrice /\ c.out.ok) =>
        IF can_place_order(c.t, detect_market(s)).ok /\ crosses
        THEN /\ StoredBy(c).status = "FILLED"
             /\ StoredBy(c).order_price = c.quote[1].current_price
        ELSE /\ StoredBy(c).status = "PENDING"
             /\ StoredBy(c).order_price = c.price

\* C12: a validated LIMIT order executes immediately at the current price
\* exactly when can_place_order is true for the stock's market and the price
\* crosses (buy: order_price >= current; sell: order_price <= current), and
\* is stored PENDING otherwise, for buys and sells alike.
C12_LimitOrderExecution ==
    \A u \in Users : \A s \in StocksOf(u) :
        /\ \A c \in BuyCalls(u, s) :
               LimitCallSettled(s, c, c.price >= c.quote[1].current_price)
        /\ \A c \in SellCalls(u, s) :
               LimitCallSettled(s, c, c.price <= c.quote[1].current_price)

\* The CNY amount debited for an executed buy or credited for an executed
\* sell, fees included
SettlementAmount(order) ==
    IF order.order_type = "BUY"
    THEN calculate_buy_amount(config, order.order_volume, order.order_price,
                              detect_market(order.stock_code))
    ELSE calculate_sell_amount(config, order.order_volume, order.order_price,
                               detect_market(order.stock_code))

\* C13: every order stored as FILLED has filled_volume = order_volume and
\* filled_amount equal to the settlement amount, fees included.
C13_FilledAmountIsSettlement ==
    \A id \in DOMAIN orders :
        orders[id].status = "FILLED" =>
            /\ orders[id].filled_volume = orders[id].order_volume
            /\ orders[id].filled_amount = SettlementAmount(orders[id])

\* ------------------------------------------------------------------------
\* Properties of the session resolvers
\* ------------------------------------------------------------------------
LocalDate == market_date(clock.t, clock.market)

LocalTod == market_tod(clock.t, clock.market)

AskedCanPlaceOrder == answer.op = "can_place_order"

AskedUsSession == answer.op = "get_us_trading_session"

\* C14: in the US market 23:30 local on a trading day is classified
\* overnight; a local time in 00:00-04:00 is classified overnight when the
\* previous local calendar day was a trading day and closed when it was not.
C14_OvernightClassification ==
    AskedUsSession =>
        /\ (LocalTod = HM(23, 30) /\ is_trading_day(LocalDate, "US"))
               => answer.session_type = "overnight"
        /\ (HM(0, 0) <= LocalTod /\ LocalTod < HM(4, 0))
               => answer.session_type =
                      IF is_trading_day(LocalDate - 1, "US") THEN "overnight"
                      ELSE "closed"

\* C15: in the US market, at a local time in 00:00-04:00 whose previous local
\* date was a trading day, can_place_order is true with the overnight
\* session, also when the current local date is not a trading day.
C15_OvernightException ==
    (/\ AskedCanPlaceOrder
     /\ clock.market = "US"
     /\ HM(0, 0) <= LocalTod /\ LocalTod < HM(4, 0)
     /\ is_trading_day(LocalDate - 1, "US"))
    => answer.ok /\ answer.reason = "overnight"

\* The highest-priority session among those whose test succeeds at the
\* instant: REGULAR > CALL_AUCTION > PRE_MARKET > AFTER_HOURS > OVERNIGHT
PrioritySession(t, market) ==
    IF is_trading_time(t, market) THEN "regular"
    ELSE IF is_call_auction_time(t, market) THEN "call_auction"
    ELSE IF is_pre_market_time(t, market) THEN "pre_market"
    ELSE IF is_after_hours_time(t, market) THEN "after_hours"
    ELSE IF is_overnight_trading_time(t, market) THEN "overnight"
    ELSE "closed"

\* C16: on a trading day every session resolver reports the highest-priority
\* matching session, and closed when none matches.
C16_SessionPriority ==
    is_trading_day(LocalDate, clock.market) =>
        /\ AskedCanPlaceOrder =>
               /\ answer.ok <=> PrioritySession(clock.t, clock.market) # "closed"
               /\ answer.ok => answer.reason = PrioritySession(clock.t, clock.market)
        /\ AskedUsSession =>
               answer.session_type = PrioritySession(clock.t, clock.market)

StrictlyInside(sessions, tod) ==
    \E i \in DOMAIN sessions : sessions[i][1] < tod /\ tod < sessions[i][2]

FirstWindowStart(market) == IF market = "A" THEN HM(9, 15) ELSE HM(9, 30)

LastWindowEnd(market) == IF market = "A" THEN HM(15, 0) ELSE HM(16, 0)

LunchStart(market) == IF market = "A" THEN HM(11, 30) ELSE HM(12, 0)

LunchEnd(market) == HM(13, 0)

\* C19: in the A-share and HK markets on a trading day can_place_order is
\* false with the lunch-break reason inside the lunch break, with the
\* not-yet-open reason before the first window and with the already-closed
\* reason after the last window.
C19_ClosedReasons ==
    (/\ AskedCanPlaceOrder
     /\ clock.market \in {"A", "HK"}
     /\ is_trading_day(LocalDate, clock.market))
    => /\ (LunchStart(clock.market) < LocalTod /\ LocalTod < LunchEnd(clock.market))
              => ~answer.ok /\ answer.reason = "lunch_break"
       /\ LocalTod < FirstWindowStart(clock.market)
              => ~answer.ok /\ answer.reason = "not_yet_open"
       /\ LocalTod > LastWindowEnd(clock.market)
              => ~answer.ok /\ answer.reason = "already_closed"

\* ------------------------------------------------------------------------
\* Properties of the currency service
\* ------------------------------------------------------------------------
ReversiblePairs == {<<"HKD", "CNY">>, <<"CNY", "HKD">>, <<"USD", "CNY">>, <<"CNY", "USD">>}

\* C20: for each reversible pair and every configured base rate, zero and
\* negative values included, get_exchange_rate(A, B) * get_exchange_rate(B, A)
\* = 1.
C20_ReverseIsReciprocal ==
    (/\ answer.op = "get_exchange_rate"
     /\ <<answer.from_currency, answer.to_currency>> \in ReversiblePairs)
    => LET forward == answer.rate
           reverse == get_exchange_rate(config, answer.to_currency,
                                        answer.from_currency)
       IN  forward[1] * reverse[1] = forward[2] * reverse[2]

\* C21: when the configured hkd_to_cny_rate or usd_to_cny_rate is zero or
\* negative, the forward rate HKD->CNY or USD->CNY returned is the default
\* (0.92 or 7.20), not the 0.0001 floor.
C21_ForwardFallsBackToDefault ==
    answer.op = "get_exchange_rate" =>
        /\ (/\ answer.from_currency = "HKD" /\ answer.to_currency = "CNY"
            /\ config.hkd <= 0)
               => answer.rate = <<DefaultHkdRate, Scale>>
        /\ (/\ answer.from_currency = "USD" /\ answer.to_currency = "CNY"
            /\ config.usd <= 0)
               => answer.rate = <<DefaultUsdRate, Scale>>


\* The minimum commission of a market, in CNY, as the specification lists it
ClaimedMinCommissionCny(market) ==
    IF market = "A" THEN 5 * Scale
    ELSE IF market = "HK" THEN 50 * Scale
    ELSE 1 * Scale

\* C22: calculate_commission converts the per-market minimum (5, 50 or 1 CNY)
\* into the market's native currency with the configured CNY->native rate
\* before comparing it with the percentage commission, so the commission is
\* the larger of amount * 0.0003 and the converted minimum (the minimum
\* multiplied by the CNY->native rate; the reading that divides by it is
\* admitted too).
C22_MinimumCommissionConverted ==
    answer.op = "calculate_commission" =>
        LET pct == MulDiv(answer.amount, CommissionRateNum, CommissionRateDen)
            native == get_currency_by_market(answer.market)
            rate == get_exchange_rate(config, "CNY", native)
            floor_cny == ClaimedMinCommissionCny(answer.market)
        IN  \/ answer.value = Max(pct, MulDiv(floor_cny, rate[1], rate[2]))
            \/ answer.value = Max(pct, MulDiv(floor_cny, rate[2], rate[1]))

\* The stamp tax of a trade as the specification states it, in the market's
\* currency
ClaimedStampTax(side, market, amount) ==
    IF market = "A"
    THEN IF side = "SELL" THEN MulDiv(amount, 1, 1000) ELSE 0
    ELSE IF market = "HK" THEN MulDiv(amount, 1, 1000)
    ELSE 0

\* C23: the stamp tax inside a settlement amount is 0 for A-share buys, 0.1%
\* of the principal for A-share sells, 0.1% for Hong Kong buys and sells, and
\* 0 for US trades.
C23_StampTaxByMarket ==
    /\ answer.op = "calculate_buy_amount" =>
           LET amount == answer.volume * answer.price
           IN  answer.value =
                   convert_to_cny(config,
                       amount + calculate_commission(config, amount, answer.market)
                              + ClaimedStampTax("BUY", answer.market, amount)
                              + transfer_fee(amount, answer.market),
                       answer.market)
    /\ answer.op = "calculate_sell_amount" =>
           LET amount == answer.volume * answer.price
           IN  answer.value =
                   convert_to_cny(config,
                       amount - calculate_commission(config, amount, answer.market)
                              - ClaimedStampTax("SELL", answer.market, amount)
                              - transfer_fee(amount, answer.market),
                       answer.market)


\* C24: an A-share buy costs principal + max(principal * 0.0003, 5)
\* + max(1, principal * 0.00002) with no stamp tax (100 shares at 10.00 cost
\* 1006); an A-share sell yields the principal minus that commission, minus
\* 0.1% stamp tax, minus the same transfer fee; Hong Kong and US amounts
\* contain no transfer fee.
C24_AShareFeesAndTransferFee ==
    (answer.op = "calculate_buy_amount" \/ answer.op = "calculate_sell_amount") =>
        LET principal == answer.volume * answer.price
            commission == Max((principal * 3) \div 10000, 5 * Scale)
            transfer == Max(1 * Scale, (principal * 2) \div 100000)
            stamp == principal \div 1000
        IN  IF answer.market = "A"
            THEN IF answer.op = "calculate_buy_amount"
                 THEN answer.value = principal + commission + transfer
                 ELSE answer.value = principal - commission - stamp - transfer
            ELSE IF answer.op = "calculate_buy_amount"
                 THEN answer.value =
                          convert_to_cny(config,
                              principal + calculate_commission(config, principal, answer.market),
                              answer.market)
                 ELSE answer.value =
                          convert_to_cny(config,
                              principal - calculate_commission(config, principal, answer.market)
                                        - sell_stamp_tax(principal, answer.market),
                              answer.market)

C24_Witness ==
    /\ answer.op = "calculate_buy_amount"
    /\ answer.market = "A"
    /\ answer.volume = 100
    /\ answer.price = Yuan(10, 0)
    /\ answer.value = Yuan(1006, 0)

\* The seven checks of a buy order in the order the specification lists
\* them: TRUE where the check fails
FailedBuyChecks(cfg, t, stock_info, order, user_balance) ==
    LET market == stock_info.market
        cost == calculate_buy_amount(cfg, order.order_volume, order.order_price, market)
        lot == IF market = "A" THEN 100 ELSE 1
        minimum == IF market = "HK" THEN 1000 * Scale ELSE 100 * Scale
    IN  << order.price_type = "MARKET" /\ ~can_place_order(t, market).ok,
           stock_info.is_suspended,
           stock_info.limit_up > 0 /\ stock_info.current_price >= stock_info.limit_up,
           stock_info.limit_up > 0 /\ order.order_price > stock_info.limit_up,
           cost > user_balance,
           order.order_volume % lot # 0,
           cost < minimum >>

BuyCheckReasons ==
    << "not_trading_time", "suspended", "at_limit_up", "price_above_limit_up",
       "insufficient_funds", "lot_size", "min_amount" >>

\* C25: validate_buy_order returns the reason of the first failing check in
\* the order session, suspension, at limit-up, price above limit-up, funds,
\* lot size, minimum amount, and returns ok only if all seven pass.
C25_FirstFailingCheck ==
    answer.op = "validate_buy_order" =>
        LET failed == FailedBuyChecks(config, answer.t, answer.stock_info,
                                      answer.order, answer.user_balance)
            failing == {i \in 1..7 : failed[i]}
        IN  IF failing = {}
            THEN answer.value = "ok"
            ELSE \E i \in failing :
                     /\ \A j \in failing : i <= j
                     /\ answer.value = BuyCheckReasons[i]

\* a buy order failing both the funds check and the lot-size check is
\* rejected for the funds
C25_Witness ==
    /\ answer.op = "validate_buy_order"
    /\ answer.value = "insufficient_funds"
    /\ LET failed == FailedBuyChecks(config, answer.t, answer.stock_info,
                                     answer.order, answer.user_balance)
       IN  failed[5] /\ failed[6]


\* C26: a step that queues a LIMIT sell as PENDING stores the order and
\* changes nothing else: every user record and every position record is
\* unchanged and no other order is touched, so pending sells whose volumes
\* together exceed available_volume can coexist.
C26_PendingSellOnlyStoresOrder ==
    [][ (/\ next_order_number' # next_order_number
         /\ last'.op = "sell"
         /\ last'.reason = "pending")
        => /\ users' = users
           /\ positions' = positions
           /\ DOMAIN orders' = DOMAIN orders \cup {last'.order_id}
           /\ \A id \in DOMAIN orders : orders'[id] = orders[id]
           /\ orders'[last'.order_id].status = "PENDING"
           /\ orders'[last'.order_id].order_type = "SELL"
           /\ orders'[last'.order_id].filled_volume = 0 ]_vars

\* a sell is pending and a further sell request is accepted as pending
\* although the two volumes exceed the available volume of the position
C26_Witness ==
    /\ last.op = "sell"
    /\ last.reason = "pending"
    /\ \E u \in Users :
       \E s \in StocksOf(u) :
           /\ orders[last.order_id].user_id = u
           /\ orders[last.order_id].stock_code = s
           /\ orders[last.order_id].status = "PENDING"
           /\ get_position(positions, u, s) # <<>>
           /\ \E c \in SellCalls(u, s) :
                  /\ c.out.ok
                  /\ c.out.reason = "pending"
                  /\ c.out.positions = positions
                  /\ orders[last.order_id].order_volume + c.volume >
                         get_position(positions, u, s)[1].available_volume


\* The settlement cost of a buy request executed at the price of the quote
RaceCost(req) ==
    calculate_buy_amount(config, req.volume, RaceQuote.current_price, RaceQuote.market)

FilledOrdersOf(u, order_type) ==
    {id \in DOMAIN orders :
        /\ orders[id].user_id = u
        /\ orders[id].order_type = order_type
        /\ orders[id].status = "FILLED"}

\* C27: place_buy_order checks and debits the balance it read before the
\* quote fetch: a buy is filled whenever that snapshot covers the cost and
\* the stored balance becomes the snapshot minus the cost, whatever other
\* requests of the user have written meanwhile; so two concurrent buys of a
\* user are both FILLED while the balance is debited for one of them only.
C27_BuyDebitsBalanceSnapshot ==
    [][ \A r \in Tasks :
          (inflight[r].op = "buy" /\ inflight'[r] = Idle) =>
              LET req == inflight[r]
              IN  /\ last'.reason = "filled" =>
                        /\ req.user.balance >= RaceCost(req)
                        /\ orders'[last'.order_id].status = "FILLED"
                        /\ users'[req.user_id].balance = req.user.balance - RaceCost(req)
                  /\ last'.reason = "insufficient_funds" =>
                        req.user.balance < RaceCost(req) ]_vars

\* two buys of a user are filled, nothing was sold, and the balance is the
\* initial balance less the cost of one of them
C27_Witness ==
    \E u \in Users :
        /\ Cardinality(FilledOrdersOf(u, "BUY")) = 2
        /\ FilledOrdersOf(u, "SELL") = {}
        /\ \E id \in FilledOrdersOf(u, "BUY") :
               users[u].balance = InitialBalance(u)
                   - calculate_buy_amount(config, orders[id].order_volume,
                                          orders[id].order_price,
                                          detect_market(orders[id].stock_code))

\* C28: place_sell_order validates and reduces the position it read before
\* the quote fetch: a sell is filled whenever that snapshot has the
\* available volume and the stored position becomes the reduced snapshot,
\* whatever other requests have written meanwhile; so two concurrent sells
\* of a user are both FILLED although their combined volume exceeds the
\* position.
C28_SellReducesPositionSnapshot ==
    [][ \A r \in Tasks :
          (inflight[r].op = "sell" /\ inflight'[r] = Idle) =>
              LET req == inflight[r]
                  key == <<req.user_id, req.stock_code>>
              IN  /\ last'.reason = "filled" =>
                        /\ req.position # <<>>
                        /\ req.position[1].available_volume >= req.volume
                        /\ orders'[last'.order_id].status = "FILLED"
                        /\ IF req.position[1].total_volume = req.volume
                           THEN key \notin DOMAIN positions'
                           ELSE /\ key \in DOMAIN positions'
                                /\ positions'[key].total_volume =
                                       req.position[1].total_volume - req.volume
                                /\ positions'[key].available_volume =
                                       req.position[1].available_volume - req.volume
                  /\ last'.reason \in {"no_position", "insufficient_available"} =>
                        \/ req.position = <<>>
                        \/ req.position[1].total_volume <= 0
                        \/ req.position[1].available_volume < req.volume ]_vars

\* two sells of a user are filled for 200 shares in all although the user
\* bought 100
C28_Witness ==
    \E u \in Users :
        /\ Cardinality(FilledOrdersOf(u, "SELL")) = 2
        /\ Cardinality(FilledOrdersOf(u, "BUY")) = 1
        /\ \A id \in FilledOrdersOf(u, "SELL") \cup FilledOrdersOf(u, "BUY") :
               /\ orders[id].order_volume = 100
               /\ orders[id].stock_code = RaceStock
        /\ <<u, RaceStock>> \notin DOMAIN positions


\* The records of user v are the same before and after a step
RecordsUnchanged(v) ==
    /\ users'[v] = users[v]
    /\ \A k \in DOMAIN positions \cup DOMAIN positions' :
           k[1] = v => /\ k \in DOMAIN positions
                       /\ k \in DOMAIN positions'
                       /\ positions'[k] = positions[k]
    /\ \A id \in DOMAIN orders :
           orders[id].user_id = v => /\ id \in DOMAIN orders'
                                     /\ orders'[id] = orders[id]
    /\ \A id \in DOMAIN orders' \ DOMAIN orders : orders'[id].user_id # v

\* C29: under any interleaving of the operations of different users, an
\* operation of user U (buy, sell, cancel, day advance, each with its asset
\* update) never changes the balance, total_assets, positions or orders of
\* another user.
C29_OtherUsersUnchanged ==
    [][ store' # store =>
            /\ last'.user \in Users
            /\ \A v \in Users \ {last'.user} : RecordsUnchanged(v) ]_vars

\* both users hold an order, and the last operation was a successful one of
\* the user whose order has the higher number
C29_Witness ==
    /\ last.ok
    /\ last.user \in Users
    /\ \E id1 \in DOMAIN orders, id2 \in DOMAIN orders :
           /\ id1 < id2
           /\ orders[id1].user_id # last.user
           /\ orders[id2].user_id = last.user
           /\ last.order_id = id2

\* C29 as stated, in its second half: each user's final state is the one
\* obtained by running that user's operations alone, so the orders a user
\* holds are numbered as if no other user had placed one: no stored order
\* with a lower number belongs to another user.
C29_FinalStateAsAlone ==
    \A id1 \in DOMAIN orders, id2 \in DOMAIN orders :
        id1 < id2 => orders[id1].user_id = orders[id2].user_id


\* C30: when a storage or quote collaborator call fails during a buy, a sell
\* or a cancel, no partial state is committed: the step leaves users,
\* positions and orders as they were.
C30_FailureCommitsNothing ==
    [][ last'.reason = "collaborator_failed" => store' = store ]_vars


\* C31: every failure path of a buy, a sell or a cancel, including a call in
\* which a storage or quote collaborator raises, ends by returning a
\* (false, reason) result: the exception does not propagate to the caller.
C31_FailureIsReturned ==
    last.reason = "collaborator_failed" => ~last.raised


\* C32: every commit path writes the user record before the order record
\* whose balance change it carries: when a handler is cut short by a failing
\* write and the record of a buy order has been written or changed, the
\* balance of the order's user has been written already.
C32_UserWrittenBeforeOrder ==
    [][ faults' # faults =>
            \A id \in DOMAIN orders' :
                (/\ orders'[id].order_type = "BUY"
                 /\ (id \notin DOMAIN orders \/ orders'[id] # orders[id]))
                    => users'[orders'[id].user_id].balance
                           # users[orders'[id].user_id].balance ]_vars


\* C33: an order id is drawn only after validation has passed, every
\* persisted order has an id of the sequence, and every request for which
\* an id was drawn results in a persisted order: the stored orders are
\* exactly the ids drawn so far.
C33_DrawnIdsArePersisted ==
    DOMAIN orders = 1 .. (next_order_number - 1)


\* C34: during a call-auction window only limit orders are accepted: a
\* market buy or sell submitted while the stock's market is in a call
\* auction, and not in a regular session, is rejected and not executed.
C34_MarketOrderRejectedInAuction ==
    \A u \in Users :
    \A s \in StocksOf(u) :
    \A c \in PlaceCalls(u, s) :
        (/\ c.price = NoPrice
         /\ is_call_auction_time(c.t, detect_market(s))
         /\ ~is_trading_time(c.t, detect_market(s)))
            => /\ ~c.out.ok
               /\ c.out.orders = orders


\* C36: an executed sell never decreases the cash balance: for every sell
\* order accepted by validate_sell_order the net amount credited (principal
\* minus commission, stamp tax and transfer fee) is at least 0.
C36_SellNetNonNegative ==
    (answer.op = "validate_sell_order" /\ answer.value = "ok") => answer.net >= 0


\* ------------------------------------------------------------------------
\* The engine trading the penny stock: the calls of one user, one after the
\* other, from the initial balance
\* ------------------------------------------------------------------------
PennyBuyVolumes == {1, 100, 1000, 2220}

PennyPrices == {NoPrice, Yuan(0, 40)}

PlaceBuyPenny ==
    \E v \in PennyBuyVolumes, p \in PennyPrices, t \in EngineInstants("u1", "US") :
        LET out == place_buy_order("u1", PennyStock, v, p, <<PennyQuote>>, t)
        IN  Commit(out) /\ last' = Last("buy", "u1", PennyStock, v, out)

PlaceSellPenny ==
    \E v \in PennyVolumes, p \in PennyPrices, t \in EngineInstants("u1", "US") :
        LET out == place_sell_order("u1", PennyStock, v, p, <<PennyQuote>>, t)
        IN  Commit(out) /\ last' = Last("sell", "u1", PennyStock, v, out)

NextPenny ==
    \/ PlaceBuyPenny
    \/ PlaceSellPenny
    \/ CancelOrder
    \/ AdvanceTradingDay

SpecPenny == Init /\ [][NextPenny]_vars

\* C35: under sequential operation, starting from a non-negative balance,
\* the cash balance of every user is non-negative in every reachable state.
C35_BalanceNonNegative ==
    \A u \in Users : users[u].balance >= 0


\* C37: an order becomes FILLED only inside the place_buy_order or
\* place_sell_order call that creates it; once an order is stored PENDING no
\* operation moves it to FILLED, and cancel_order of that order is the only
\* operation that changes it.
C37_PendingStep ==
    /\ \A id \in DOMAIN orders :
           /\ id \in DOMAIN orders'
           /\ orders'[id].status = "FILLED" => orders[id].status = "FILLED"
           /\ orders[id].status = "PENDING" =>
                  /\ orders'[id].status \in {"PENDING", "CANCELLED"}
                  /\ orders'[id] # orders[id] =>
                         /\ last'.op = "cancel"
                         /\ last'.order_id = id
                         /\ orders'[id] = cancel_order_status(orders[id])
    /\ \A id \in DOMAIN orders' \ DOMAIN orders :
           orders'[id].status = "FILLED" =>
               /\ last'.op \in {"buy", "sell"}
               /\ last'.ok
               /\ last'.order_id = id

C37_FilledOnlyAtCreation == [][C37_PendingStep]_vars

\* A later order was filled by the call that created it while an earlier
\* order stays PENDING
C37_Witness ==
    /\ \E i \in DOMAIN orders, j \in DOMAIN orders :
           /\ i < j
           /\ orders[i].status = "PENDING"
           /\ orders[j].status = "FILLED"
           /\ last.op \in {"buy", "sell"}
           /\ last.order_id = j


AskedIsMarketOpen == answer.op = "is_market_open"

\* C38: the session predicates agree: at every instant and in every market
\* is_market_open is true exactly when can_place_order returns true, and in
\* the US market get_us_trading_session reports a session other than closed
\* exactly when can_place_order is true.
C38_SessionPredicatesAgree ==
    /\ AskedIsMarketOpen =>
           (answer.open <=> can_place_order(clock.t, clock.market).ok)
    /\ AskedCanPlaceOrder =>
           (answer.ok <=> is_market_open(clock.t, clock.market))
    /\ AskedUsSession =>
           (answer.session_type # "closed" <=> can_place_order(clock.t, "US").ok)

====
